---- MODULE Spec2Model ----
(***************************************************************************)
(* State-machine model of the three on-chain programs of the repository:   *)
(*   sip-settlement  (root rotation, Merkle inclusion, used commitments)   *)
(*   sip-vault       (custody vault: deposits, gated withdrawals)          *)
(*   obscura_vault   (privacy-claim vault: nullifier-gated claims)         *)
(* Every instruction is one action.  The outcome of a call ("Ok" or the    *)
(* error it returns) is the value of the instruction's *_error operator,   *)
(* which applies the checks in the order the program applies them: first   *)
(* the account constraints of the #[derive(Accounts)] struct (init,        *)
(* has_one, constraint), then the handler's require! checks.  A call that  *)
(* returns an error is rolled back by the runtime and changes no account;  *)
(* `refused` is the history of the vault withdrawals a handler rejected.   *)
(***************************************************************************)
EXTENDS Integers, Sequences, FiniteSets, TLC

\* ------------------------------------------------------------------ bounds
\* largest batch id a successful update_root may produce in the model
MaxBatch == 2
\* largest deposit counter a successful deposit may produce in the model
MaxDeposits == 2
\* largest amount a caller passes to deposit / withdraw / claim
MaxAmount == 2
\* largest number of successful claims of the privacy-claim vault
MaxClaims == 3
\* longest sibling path of the stand-alone verify_merkle_proof calls
MaxPath == 2

\* ------------------------------------------------------- program constants
MAX_EXECUTORS == 10
MAX_PROOF_LENGTH == 32
\* Pubkey::default(): the all-zero public key; nobody can sign with it
DefaultPubkey == 0
\* a [u8; 32] that is no hash output, named by a number
Bytes32(n) == <<n>>
\* [0u8; 32]
ZeroBytes == Bytes32(0)

\* ---------------------------------------------------------- input domains
\* identities able to sign a transaction
Signers == {1, 2}
Pubkeys == {DefaultPubkey} \cup Signers
\* the commitments, nullifiers and sibling values callers submit
Commitments == {Bytes32(2), Bytes32(4)}
\* Clock::get()?.unix_timestamp
Times == {1}
Amounts == 0..MaxAmount
\* the signer of every program's initialize, who also makes the deposits
Deployer == CHOOSE s \in Signers : \A t \in Signers : s <= t

\* ================================================================ hashing
\* keccak over 0x01 || left || right, modelled as the injective pairing that
\* keeps the hashed bytes: the tag, the left and the right node.  A hash
\* output is a triple and so differs from every Bytes32(n).
hash_pair(left, right) ==
    <<1, left, right>>

RECURSIVE compute_root_left_child_on_odd(_, _, _)
\* the fold with the two branches exchanged: the node goes left when the
\* index bit is 1
compute_root_left_child_on_odd(computed_hash, proof, index) ==
    IF proof = <<>> THEN computed_hash
    ELSE compute_root_left_child_on_odd(
            IF index % 2 = 1
                THEN hash_pair(computed_hash, Head(proof))
                ELSE hash_pair(Head(proof), computed_hash),
            Tail(proof),
            index \div 2)

RECURSIVE compute_root_index_in_tree(_, _, _)
\* the fold that ends in no root when index bits are left over after the last
\* sibling: an index beyond the leaves of a tree of the proof's depth verifies
\* against nothing
compute_root_index_in_tree(computed_hash, proof, index) ==
    IF proof = <<>>
    THEN IF index = 0 THEN computed_hash ELSE <<>>
    ELSE compute_root_index_in_tree(
            IF index % 2 = 1
                THEN hash_pair(Head(proof), computed_hash)
                ELSE hash_pair(computed_hash, Head(proof)),
            Tail(proof),
            index \div 2)

RECURSIVE compute_root(_, _, _)
\* the loop of verify_merkle_proof: fold the siblings into the leaf
compute_root(computed_hash, proof, index) ==
    IF proof = <<>> THEN computed_hash
    ELSE compute_root(
            IF index % 2 = 1
                THEN hash_pair(Head(proof), computed_hash)
                ELSE hash_pair(computed_hash, Head(proof)),
            Tail(proof),
            index \div 2)

verify_merkle_proof(leaf, proof, index, root) ==
    compute_root(leaf, proof, index) = root

\* sibling paths a caller submits: empty, of length 1, one of exactly
\* MAX_PROOF_LENGTH entries and one of MAX_PROOF_LENGTH + 1 entries
Proof32 == [i \in 1..MAX_PROOF_LENGTH |-> Bytes32(2)]
LongProof == [i \in 1..(MAX_PROOF_LENGTH + 1) |-> Bytes32(2)]
Proofs == {<<>>, <<Bytes32(2)>>, <<Bytes32(4)>>, Proof32, LongProof}
LeafIndices == 0..2
\* roots a caller submits to update_root: zero, the root of a tree of depth 1
\* and the root of a tree of depth MAX_PROOF_LENGTH
Roots == {ZeroBytes,
          hash_pair(Bytes32(2), Bytes32(4)),
          compute_root(Bytes32(4), Proof32, 0)}

VARIABLES
    settlement_state,   \* sip-settlement: the SettlementState account
    batch_roots,        \* sip-settlement: BatchRoot accounts, keyed by batch id
    settled,            \* sip-settlement: UsedCommitment accounts, keyed by commitment
    cancelled,          \* sip-settlement: the pending owner a cancel removed, until
                        \*   the next transfer_authority
    vault_state,        \* sip-vault: the VaultState account
    deposit_records,    \* sip-vault: DepositRecord accounts, keyed by nonce
    used_commitments,   \* sip-vault: UsedCommitment accounts, keyed by commitment
    custody,            \* sip-vault: lamports and tokens held by the vault accounts
    refused,            \* sip-vault: tokens of the withdrawals a handler check rejected
    obscura_state,      \* obscura_vault: the VaultState account
    obscura_lamports,   \* obscura_vault: lamports held by the vault PDA
    claim_events,       \* obscura_vault: nullifiers of the emitted claim events
    merkle_call,        \* verify_merkle_proof called on its own: the arguments
    merkle_result       \* verify_merkle_proof called on its own: <<>>, then <<result>>

settlement_accounts == <<settlement_state, batch_roots, settled>>
settlement_vars == <<settlement_accounts, cancelled>>
vault_accounts == <<vault_state, deposit_records, used_commitments, custody>>
vault_vars == <<vault_accounts, refused>>
obscura_vars == <<obscura_state, obscura_lamports, claim_events>>
merkle_vars == <<merkle_call, merkle_result>>
vars == <<settlement_vars, vault_vars, obscura_vars, merkle_vars>>

\* =========================================================== sip-settlement
\* SettlementState::is_executor
is_executor(state, pubkey) ==
    \/ pubkey = state.authority
    \/ \E i \in 1..state.executor_count : state.executors[i] = pubkey

\* initialize: the state written by the handler
settlement_initialize(authority) ==
    [authority |-> authority,
     pending_authority |-> DefaultPubkey,
     current_root |-> ZeroBytes,
     batch_id |-> 0,
     executor_count |-> 0,
     executors |-> [i \in 1..MAX_EXECUTORS |-> DefaultPubkey]]

SettlementInit ==
    /\ settlement_state = settlement_initialize(Deployer)
    /\ batch_roots = <<>>
    /\ settled = <<>>
    /\ cancelled = DefaultPubkey

\* initialize whose state account is opened with init_if_needed: the handler
\* runs on the existing singleton and writes its fields again
s_initialize_init_if_needed(authority) ==
    /\ settlement_state' = settlement_initialize(authority)
    /\ UNCHANGED <<batch_roots, settled>>
    /\ UNCHANGED <<cancelled, vault_vars, obscura_vars, merkle_vars>>

\* initialize: `init` of the state PDA, whose seeds are constant; the account
\* exists from the first initialize on and no instruction closes it
s_initialize_error(authority) == "AccountAlreadyInUse"

\* initialize on the existing singleton: `init` finds the PDA in use
s_initialize(authority) ==
    UNCHANGED vars

\* update_root with the executor check left out
update_root_error_no_auth(executor, new_root) ==
    IF (settlement_state.batch_id + 1) \in DOMAIN batch_roots THEN "AccountAlreadyInUse"
    ELSE IF new_root = ZeroBytes THEN "InvalidRoot"
    ELSE "Ok"

\* update_root whose BatchRoot PDA is seeded with the batch id before the
\* increment and opened with init_if_needed: the record of the current batch
\* is written over
update_root_seed_current_batch(executor, new_root, now) ==
    LET err == IF ~is_executor(settlement_state, executor) THEN "Unauthorized"
               ELSE IF new_root = ZeroBytes THEN "InvalidRoot"
               ELSE "Ok"
        id == settlement_state.batch_id
    IN  /\ err = "Ok" => id + 1 <= MaxBatch
        /\ IF err = "Ok"
           THEN /\ settlement_state' = [settlement_state EXCEPT
                                            !.batch_id = id + 1,
                                            !.current_root = new_root]
                /\ batch_roots' = [b \in DOMAIN batch_roots \cup {id} |->
                                     IF b = id
                                     THEN [batch_id |-> id + 1, root |-> new_root,
                                           created_at |-> now, executor |-> executor]
                                     ELSE batch_roots[b]]
                /\ UNCHANGED settled
           ELSE UNCHANGED <<settlement_state, batch_roots, settled>>
        /\ UNCHANGED <<cancelled, vault_vars, obscura_vars, merkle_vars>>

\* update_root that writes the BatchRoot account and the batch id but not the
\* current root
update_root_keeps_current_root(executor, new_root, now) ==
    LET err == IF (settlement_state.batch_id + 1) \in DOMAIN batch_roots
                  THEN "AccountAlreadyInUse"
               ELSE IF ~is_executor(settlement_state, executor) THEN "Unauthorized"
               ELSE IF new_root = ZeroBytes THEN "InvalidRoot"
               ELSE "Ok"
        id == settlement_state.batch_id + 1
    IN  /\ err = "Ok" => id <= MaxBatch
        /\ IF err = "Ok"
           THEN /\ settlement_state' = [settlement_state EXCEPT !.batch_id = id]
                /\ batch_roots' = [b \in DOMAIN batch_roots \cup {id} |->
                                     IF b = id
                                     THEN [batch_id |-> id, root |-> new_root,
                                           created_at |-> now, executor |-> executor]
                                     ELSE batch_roots[b]]
                /\ UNCHANGED settled
           ELSE UNCHANGED <<settlement_state, batch_roots, settled>>
        /\ UNCHANGED <<cancelled, vault_vars, obscura_vars, merkle_vars>>

\* update_root without the require! on the new root
update_root_error_no_root_check(executor, new_root) ==
    IF (settlement_state.batch_id + 1) \in DOMAIN batch_roots THEN "AccountAlreadyInUse"
    ELSE IF ~is_executor(settlement_state, executor) THEN "Unauthorized"
    ELSE "Ok"

\* update_root: account constraints, then the handler's require! checks
update_root_error(executor, new_root) ==
    IF (settlement_state.batch_id + 1) \in DOMAIN batch_roots THEN "AccountAlreadyInUse"
    ELSE IF ~is_executor(settlement_state, executor) THEN "Unauthorized"
    ELSE IF new_root = ZeroBytes THEN "InvalidRoot"
    ELSE "Ok"

update_root(executor, new_root, now) ==
    LET err == update_root_error(executor, new_root)
        id == settlement_state.batch_id + 1
    IN  /\ err = "Ok" => id <= MaxBatch
        /\ IF err = "Ok"
           THEN /\ settlement_state' = [settlement_state EXCEPT
                                            !.batch_id = id,
                                            !.current_root = new_root]
                /\ batch_roots' = [b \in DOMAIN batch_roots \cup {id} |->
                                     IF b = id
                                     THEN [batch_id |-> id, root |-> new_root,
                                           created_at |-> now, executor |-> executor]
                                     ELSE batch_roots[b]]
                /\ UNCHANGED settled
           ELSE UNCHANGED <<settlement_state, batch_roots, settled>>
        /\ UNCHANGED <<cancelled, vault_vars, obscura_vars, merkle_vars>>

\* settle with init_if_needed in place of init: an existing record is reused
settle_error_init_if_needed(payer, commitment, proof, leaf_index) ==
    IF Len(proof) = 0 THEN "EmptyProof"
    ELSE IF Len(proof) > MAX_PROOF_LENGTH THEN "ProofTooLong"
    ELSE IF ~verify_merkle_proof(commitment, proof, leaf_index,
                                 settlement_state.current_root) THEN "InvalidProof"
    ELSE "Ok"

\* settle that also accepts a proof against the root of an earlier batch
settle_error_any_batch_root(payer, commitment, proof, leaf_index) ==
    IF commitment \in DOMAIN settled THEN "AccountAlreadyInUse"
    ELSE IF Len(proof) = 0 THEN "EmptyProof"
    ELSE IF Len(proof) > MAX_PROOF_LENGTH THEN "ProofTooLong"
    ELSE IF ~\E b \in DOMAIN batch_roots :
                verify_merkle_proof(commitment, proof, leaf_index,
                                    batch_roots[b].root) THEN "InvalidProof"
    ELSE "Ok"

\* settle whose length check refuses a proof of MAX_PROOF_LENGTH siblings
settle_error_below_max_length(payer, commitment, proof, leaf_index) ==
    IF commitment \in DOMAIN settled THEN "AccountAlreadyInUse"
    ELSE IF Len(proof) = 0 THEN "EmptyProof"
    ELSE IF Len(proof) >= MAX_PROOF_LENGTH THEN "ProofTooLong"
    ELSE IF ~verify_merkle_proof(commitment, proof, leaf_index,
                                 settlement_state.current_root) THEN "InvalidProof"
    ELSE "Ok"

\* settle: `init` of the UsedCommitment PDA, then the handler's checks
settle_error(payer, commitment, proof, leaf_index) ==
    IF commitment \in DOMAIN settled THEN "AccountAlreadyInUse"
    ELSE IF Len(proof) = 0 THEN "EmptyProof"
    ELSE IF Len(proof) > MAX_PROOF_LENGTH THEN "ProofTooLong"
    ELSE IF ~verify_merkle_proof(commitment, proof, leaf_index,
                                 settlement_state.current_root) THEN "InvalidProof"
    ELSE "Ok"

settle(payer, commitment, proof, leaf_index, now) ==
    LET err == settle_error(payer, commitment, proof, leaf_index)
    IN  /\ IF err = "Ok"
           THEN /\ settled' = [c \in DOMAIN settled \cup {commitment} |->
                                 IF c = commitment
                                 THEN [commitment |-> commitment,
                                       batch_id |-> settlement_state.batch_id,
                                       settled_at |-> now,
                                       executor |-> payer]
                                 ELSE settled[c]]
                /\ UNCHANGED <<settlement_state, batch_roots>>
           ELSE UNCHANGED <<settlement_state, batch_roots, settled>>
        /\ UNCHANGED <<cancelled, vault_vars, obscura_vars, merkle_vars>>

\* add_executor whose account constraint admits every executor as signer
add_executor_error_executor_signs(authority, executor) ==
    IF ~is_executor(settlement_state, authority) THEN "ConstraintHasOne"
    ELSE IF \E i \in 1..settlement_state.executor_count :
                settlement_state.executors[i] = executor THEN "ExecutorAlreadyExists"
    ELSE IF ~(settlement_state.executor_count < MAX_EXECUTORS) THEN "MaxExecutorsReached"
    ELSE "Ok"

\* add_executor that checks the capacity before it looks for the key
add_executor_error_capacity_first(authority, executor) ==
    IF authority # settlement_state.authority THEN "ConstraintHasOne"
    ELSE IF ~(settlement_state.executor_count < MAX_EXECUTORS) THEN "MaxExecutorsReached"
    ELSE IF \E i \in 1..settlement_state.executor_count :
                settlement_state.executors[i] = executor THEN "ExecutorAlreadyExists"
    ELSE "Ok"

\* add_executor without the require! on the capacity
add_executor_error_no_capacity_check(authority, executor) ==
    IF authority # settlement_state.authority THEN "ConstraintHasOne"
    ELSE IF \E i \in 1..settlement_state.executor_count :
                settlement_state.executors[i] = executor THEN "ExecutorAlreadyExists"
    ELSE "Ok"

\* add_executor: has_one = authority, then the handler
add_executor_error(authority, executor) ==
    IF authority # settlement_state.authority THEN "ConstraintHasOne"
    ELSE IF \E i \in 1..settlement_state.executor_count :
                settlement_state.executors[i] = executor THEN "ExecutorAlreadyExists"
    ELSE IF ~(settlement_state.executor_count < MAX_EXECUTORS) THEN "MaxExecutorsReached"
    ELSE "Ok"

add_executor(authority, executor) ==
    LET err == add_executor_error(authority, executor)
        idx == settlement_state.executor_count + 1
    IN  /\ IF err = "Ok"
           THEN settlement_state' = [settlement_state EXCEPT
                                        !.executors[idx] = executor,
                                        !.executor_count = @ + 1]
           ELSE UNCHANGED settlement_state
        /\ UNCHANGED <<batch_roots, settled>>
        /\ UNCHANGED <<cancelled, vault_vars, obscura_vars, merkle_vars>>

\* remove_executor that shrinks the array without moving the last key into
\* the slot it frees
remove_executor_without_swap(authority, executor) ==
    LET err == IF authority # settlement_state.authority THEN "ConstraintHasOne"
               ELSE IF ~\E i \in 1..settlement_state.executor_count :
                           settlement_state.executors[i] = executor
                    THEN "ExecutorNotFound"
               ELSE "Ok"
        last_idx == settlement_state.executor_count
    IN  /\ IF err = "Ok"
           THEN settlement_state' = [settlement_state EXCEPT
                    !.executors = [i \in 1..MAX_EXECUTORS |->
                        IF i = last_idx THEN DefaultPubkey
                        ELSE settlement_state.executors[i]],
                    !.executor_count = @ - 1]
           ELSE UNCHANGED settlement_state
        /\ UNCHANGED <<batch_roots, settled>>
        /\ UNCHANGED <<cancelled, vault_vars, obscura_vars, merkle_vars>>

\* remove_executor: has_one = authority, then find, swap with last, shrink
remove_executor_error(authority, executor) ==
    IF authority # settlement_state.authority THEN "ConstraintHasOne"
    ELSE IF ~\E i \in 1..settlement_state.executor_count :
                settlement_state.executors[i] = executor THEN "ExecutorNotFound"
    ELSE "Ok"

remove_executor(authority, executor) ==
    LET err == remove_executor_error(authority, executor)
        last_idx == settlement_state.executor_count
        idx == CHOOSE i \in 1..last_idx :
                  /\ settlement_state.executors[i] = executor
                  /\ \A j \in 1..(i - 1) : settlement_state.executors[j] # executor
    IN  /\ IF err = "Ok"
           THEN settlement_state' = [settlement_state EXCEPT
                    !.executors = [i \in 1..MAX_EXECUTORS |->
                        IF i = last_idx THEN DefaultPubkey
                        ELSE IF i = idx THEN settlement_state.executors[last_idx]
                        ELSE settlement_state.executors[i]],
                    !.executor_count = @ - 1]
           ELSE UNCHANGED settlement_state
        /\ UNCHANGED <<batch_roots, settled>>
        /\ UNCHANGED <<cancelled, vault_vars, obscura_vars, merkle_vars>>

\* transfer_authority without the require! on the new authority
s_transfer_authority_error_no_target_check(authority, new_authority) ==
    IF authority # settlement_state.authority THEN "ConstraintHasOne" ELSE "Ok"

\* transfer_authority: has_one = authority, then the handler
s_transfer_authority_error(authority, new_authority) ==
    IF authority # settlement_state.authority THEN "ConstraintHasOne"
    ELSE IF new_authority = DefaultPubkey THEN "InvalidPendingAuthority"
    ELSE "Ok"

s_transfer_authority(authority, new_authority) ==
    LET err == s_transfer_authority_error(authority, new_authority)
    IN  /\ IF err = "Ok"
           THEN settlement_state' = [settlement_state EXCEPT
                                        !.pending_authority = new_authority]
           ELSE UNCHANGED settlement_state
        /\ UNCHANGED <<batch_roots, settled>>
        /\ cancelled' = IF err = "Ok" THEN DefaultPubkey ELSE cancelled
        /\ UNCHANGED <<vault_vars, obscura_vars, merkle_vars>>

\* accept_authority that clears the pending authority before it copies it
\* into the owner field
s_accept_authority_clears_first(new_authority) ==
    LET err == IF settlement_state.pending_authority = DefaultPubkey
                  THEN "NoPendingTransfer"
               ELSE IF new_authority # settlement_state.pending_authority
                  THEN "Unauthorized"
               ELSE "Ok"
    IN  /\ IF err = "Ok"
           THEN settlement_state' = [settlement_state EXCEPT
                                        !.authority = DefaultPubkey,
                                        !.pending_authority = DefaultPubkey]
           ELSE UNCHANGED settlement_state
        /\ UNCHANGED <<batch_roots, settled>>
        /\ UNCHANGED <<cancelled, vault_vars, obscura_vars, merkle_vars>>

\* accept_authority without the require! on the signer's key
s_accept_authority_error_any_signer(new_authority) ==
    IF settlement_state.pending_authority = DefaultPubkey THEN "NoPendingTransfer"
    ELSE "Ok"

\* accept_authority: the two require! of the handler
s_accept_authority_error(new_authority) ==
    IF settlement_state.pending_authority = DefaultPubkey THEN "NoPendingTransfer"
    ELSE IF new_authority # settlement_state.pending_authority THEN "Unauthorized"
    ELSE "Ok"

s_accept_authority(new_authority) ==
    LET err == s_accept_authority_error(new_authority)
    IN  /\ IF err = "Ok"
           THEN settlement_state' = [settlement_state EXCEPT
                                        !.authority = settlement_state.pending_authority,
                                        !.pending_authority = DefaultPubkey]
           ELSE UNCHANGED settlement_state
        /\ UNCHANGED <<batch_roots, settled>>
        /\ UNCHANGED <<cancelled, vault_vars, obscura_vars, merkle_vars>>

\* cancel_authority_transfer that clears nothing when the pending authority is
\* the owner itself
cancel_authority_transfer_keeps_owner(authority) ==
    LET err == IF authority # settlement_state.authority THEN "ConstraintHasOne" ELSE "Ok"
    IN  /\ IF err = "Ok" /\ settlement_state.pending_authority # settlement_state.authority
           THEN settlement_state' = [settlement_state EXCEPT
                                        !.pending_authority = DefaultPubkey]
           ELSE UNCHANGED settlement_state
        /\ UNCHANGED <<batch_roots, settled>>
        /\ cancelled' = IF err = "Ok" THEN settlement_state.pending_authority ELSE cancelled
        /\ UNCHANGED <<vault_vars, obscura_vars, merkle_vars>>

\* cancel_authority_transfer: has_one = authority, then the handler
cancel_authority_transfer_error(authority) ==
    IF authority # settlement_state.authority THEN "ConstraintHasOne" ELSE "Ok"

cancel_authority_transfer(authority) ==
    LET err == cancel_authority_transfer_error(authority)
    IN  /\ IF err = "Ok"
           THEN settlement_state' = [settlement_state EXCEPT
                                        !.pending_authority = DefaultPubkey]
           ELSE UNCHANGED settlement_state
        /\ UNCHANGED <<batch_roots, settled>>
        /\ cancelled' = IF err = "Ok" THEN settlement_state.pending_authority ELSE cancelled
        /\ UNCHANGED <<vault_vars, obscura_vars, merkle_vars>>

SettlementNext ==
    \/ \E a \in Signers : s_initialize(a)
    \/ \E e \in Signers, r \in Roots, now \in Times : update_root(e, r, now)
    \/ \E p \in Signers, c \in Commitments, pr \in Proofs, i \in LeafIndices,
             now \in Times : settle(p, c, pr, i, now)
    \/ \E a \in Signers, e \in Signers : add_executor(a, e)
    \/ \E a \in Signers, e \in Signers : remove_executor(a, e)
    \/ \E a \in Signers, n \in Pubkeys : s_transfer_authority(a, n)
    \/ \E n \in Signers : s_accept_authority(n)
    \/ \E a \in Signers : cancel_authority_transfer(a)

\* ================================================================ sip-vault
\* token mints of deposit_token; DefaultPubkey stands for native SOL
Mints == {9}
\* system accounts receiving a withdraw_native
Recipients == {7}
\* token accounts receiving a withdraw_token
TokenAccounts == {8}
\* signers of the deposits
Depositors == {Deployer}

\* is_authorized that also lets the proposed, not yet accepted, owner through
is_authorized_pending(state, pubkey) ==
    \/ pubkey = state.authority
    \/ pubkey = state.settlement
    \/ pubkey = state.pending_authority

\* VaultState::is_authorized
is_authorized(state, pubkey) ==
    pubkey = state.authority \/ pubkey = state.settlement

\* the deposit commitment hashed without the nonce
compute_deposit_commitment_no_nonce(depositor, amount, token_mint, nonce, timestamp) ==
    <<"SIP_DEPOSIT", depositor, amount, token_mint, timestamp>>

\* keccak over "SIP_DEPOSIT" || depositor || amount || mint || nonce || timestamp,
\* modelled as the (injective) tuple of the hashed fields
compute_deposit_commitment(depositor, amount, token_mint, nonce, timestamp) ==
    <<"SIP_DEPOSIT", depositor, amount, token_mint, nonce, timestamp>>

vault_initialize(authority) ==
    [authority |-> authority,
     pending_authority |-> DefaultPubkey,
     settlement |-> authority,
     sol_balance |-> 0,
     deposit_nonce |-> 0,
     withdrawal_nonce |-> 0,
     paused |-> FALSE]

VaultInit ==
    /\ vault_state = vault_initialize(Deployer)
    /\ deposit_records = <<>>
    /\ used_commitments = <<>>
    /\ custody = [lamports |-> 0, tokens |-> 0]
    /\ refused = {}

\* initialize: `init` of the vault_state PDA, which exists and is never closed
v_initialize_error(authority) == "AccountAlreadyInUse"

v_initialize(authority) ==
    UNCHANGED vars

\* a DepositRecord that takes the nonce before the increment
new_deposit_record_stale_nonce(depositor, amount, token_mint, nonce, now) ==
    [commitment |-> compute_deposit_commitment(depositor, amount, token_mint, nonce, now),
     depositor |-> depositor,
     amount |-> amount,
     token_mint |-> token_mint,
     deposited_at |-> now,
     nonce |-> nonce - 1]

\* the DepositRecord written by both deposit handlers
new_deposit_record(depositor, amount, token_mint, nonce, now) ==
    [commitment |-> compute_deposit_commitment(depositor, amount, token_mint, nonce, now),
     depositor |-> depositor,
     amount |-> amount,
     token_mint |-> token_mint,
     deposited_at |-> now,
     nonce |-> nonce]

\* deposit_native / deposit_token: `init` of the DepositRecord PDA, the two
\* require! checks, then the transfer from the depositor (transfer_ok: the
\* outcome of the system / token program's transfer)
deposit_error(amount, transfer_ok) ==
    IF (vault_state.deposit_nonce + 1) \in DOMAIN deposit_records THEN "AccountAlreadyInUse"
    ELSE IF vault_state.paused THEN "VaultPaused"
    ELSE IF ~(amount > 0) THEN "InvalidAmount"
    ELSE IF ~transfer_ok THEN "TransferFailed"
    ELSE "Ok"

\* deposit_native whose DepositRecord, created by `init`, survives an error of
\* the handler
deposit_native_no_rollback(depositor, amount, now, transfer_ok) ==
    LET err == deposit_error(amount, transfer_ok)
        nonce == vault_state.deposit_nonce + 1
    IN  /\ err = "Ok" => nonce <= MaxDeposits
        /\ IF err = "Ok"
           THEN /\ vault_state' = [vault_state EXCEPT
                                      !.deposit_nonce = nonce,
                                      !.sol_balance = @ + amount]
                /\ custody' = [custody EXCEPT !.lamports = @ + amount]
           ELSE UNCHANGED <<vault_state, custody>>
        /\ deposit_records' =
              IF err = "AccountAlreadyInUse" THEN deposit_records
              ELSE [n \in DOMAIN deposit_records \cup {nonce} |->
                      IF n = nonce
                      THEN new_deposit_record(depositor, amount, DefaultPubkey, nonce, now)
                      ELSE deposit_records[n]]
        /\ UNCHANGED used_commitments
        /\ UNCHANGED <<refused, settlement_vars, obscura_vars, merkle_vars>>

deposit_native(depositor, amount, now, transfer_ok) ==
    LET err == deposit_error(amount, transfer_ok)
        nonce == vault_state.deposit_nonce + 1
    IN  /\ err = "Ok" => nonce <= MaxDeposits
        /\ IF err = "Ok"
           THEN /\ vault_state' = [vault_state EXCEPT
                                      !.deposit_nonce = nonce,
                                      !.sol_balance = @ + amount]
                /\ custody' = [custody EXCEPT !.lamports = @ + amount]
                /\ deposit_records' = [n \in DOMAIN deposit_records \cup {nonce} |->
                        IF n = nonce
                        THEN new_deposit_record(depositor, amount, DefaultPubkey, nonce, now)
                        ELSE deposit_records[n]]
                /\ UNCHANGED used_commitments
           ELSE UNCHANGED <<vault_state, deposit_records, used_commitments, custody>>
        /\ UNCHANGED <<refused, settlement_vars, obscura_vars, merkle_vars>>

\* deposit_token that adds the token amount to sol_balance as deposit_native does
deposit_token_tracked(depositor, amount, mint, now, transfer_ok) ==
    LET err == deposit_error(amount, transfer_ok)
        nonce == vault_state.deposit_nonce + 1
    IN  /\ err = "Ok" => nonce <= MaxDeposits
        /\ IF err = "Ok"
           THEN /\ vault_state' = [vault_state EXCEPT
                                      !.deposit_nonce = nonce,
                                      !.sol_balance = @ + amount]
                /\ custody' = [custody EXCEPT !.tokens = @ + amount]
                /\ deposit_records' = [n \in DOMAIN deposit_records \cup {nonce} |->
                        IF n = nonce
                        THEN new_deposit_record(depositor, amount, mint, nonce, now)
                        ELSE deposit_records[n]]
                /\ UNCHANGED used_commitments
           ELSE UNCHANGED <<vault_state, deposit_records, used_commitments, custody>>
        /\ UNCHANGED <<refused, settlement_vars, obscura_vars, merkle_vars>>

deposit_token(depositor, amount, mint, now, transfer_ok) ==
    LET err == deposit_error(amount, transfer_ok)
        nonce == vault_state.deposit_nonce + 1
    IN  /\ err = "Ok" => nonce <= MaxDeposits
        /\ IF err = "Ok"
           THEN /\ vault_state' = [vault_state EXCEPT !.deposit_nonce = nonce]
                /\ custody' = [custody EXCEPT !.tokens = @ + amount]
                /\ deposit_records' = [n \in DOMAIN deposit_records \cup {nonce} |->
                        IF n = nonce
                        THEN new_deposit_record(depositor, amount, mint, nonce, now)
                        ELSE deposit_records[n]]
                /\ UNCHANGED used_commitments
           ELSE UNCHANGED <<vault_state, deposit_records, used_commitments, custody>>
        /\ UNCHANGED <<refused, settlement_vars, obscura_vars, merkle_vars>>

\* the UsedCommitment written by both withdraw handlers
new_used_commitment(executor, commitment, amount, recipient, now) ==
    [commitment |-> commitment,
     used_at |-> now,
     executor |-> executor,
     amount |-> amount,
     recipient |-> recipient]

\* the errors the withdraw handlers' require! checks return; the transaction is
\* rolled back and stays in the ledger as a failed one
HandlerErrors == {"Unauthorized", "VaultPaused", "InvalidAmount", "InsufficientBalance"}

\* withdraw_native without the require! on sol_balance
withdraw_native_error_no_balance_check(executor, commitment, amount) ==
    IF commitment \in DOMAIN used_commitments THEN "AccountAlreadyInUse"
    ELSE IF ~is_authorized(vault_state, executor) THEN "Unauthorized"
    ELSE IF vault_state.paused THEN "VaultPaused"
    ELSE IF ~(amount > 0) THEN "InvalidAmount"
    ELSE "Ok"

\* withdraw_native whose UsedCommitment PDA is opened with init_if_needed: an
\* existing record does not stop the instruction
withdraw_native_error_init_if_needed(executor, commitment, amount) ==
    IF ~is_authorized(vault_state, executor) THEN "Unauthorized"
    ELSE IF vault_state.paused THEN "VaultPaused"
    ELSE IF ~(amount > 0) THEN "InvalidAmount"
    ELSE IF ~(vault_state.sol_balance >= amount) THEN "InsufficientBalance"
    ELSE "Ok"

\* withdraw_native: `init` of the UsedCommitment PDA, then the four require!
withdraw_native_error(executor, commitment, amount) ==
    IF commitment \in DOMAIN used_commitments THEN "AccountAlreadyInUse"
    ELSE IF ~is_authorized(vault_state, executor) THEN "Unauthorized"
    ELSE IF vault_state.paused THEN "VaultPaused"
    ELSE IF ~(amount > 0) THEN "InvalidAmount"
    ELSE IF ~(vault_state.sol_balance >= amount) THEN "InsufficientBalance"
    ELSE "Ok"

\* withdraw_native whose UsedCommitment record survives a failed handler check
withdraw_native_no_rollback(executor, commitment, amount, recipient, now) ==
    LET err == withdraw_native_error(executor, commitment, amount)
    IN  /\ IF err = "Ok"
           THEN /\ custody' = [custody EXCEPT !.lamports = @ - amount]
                /\ vault_state' = [vault_state EXCEPT
                                      !.sol_balance = @ - amount,
                                      !.withdrawal_nonce = @ + 1]
                /\ UNCHANGED deposit_records
           ELSE UNCHANGED <<vault_state, deposit_records, custody>>
        /\ used_commitments' =
              IF err = "AccountAlreadyInUse" THEN used_commitments
              ELSE [c \in DOMAIN used_commitments \cup {commitment} |->
                      IF c = commitment
                      THEN new_used_commitment(executor, commitment, amount, recipient, now)
                      ELSE used_commitments[c]]
        /\ refused' = IF err \in HandlerErrors THEN refused \cup {commitment} ELSE refused
        /\ UNCHANGED <<settlement_vars, obscura_vars, merkle_vars>>

withdraw_native(executor, commitment, amount, recipient, now) ==
    LET err == withdraw_native_error(executor, commitment, amount)
    IN  /\ IF err = "Ok"
           THEN /\ custody' = [custody EXCEPT !.lamports = @ - amount]
                /\ vault_state' = [vault_state EXCEPT
                                      !.sol_balance = @ - amount,
                                      !.withdrawal_nonce = @ + 1]
                /\ used_commitments' =
                      [c \in DOMAIN used_commitments \cup {commitment} |->
                        IF c = commitment
                        THEN new_used_commitment(executor, commitment, amount, recipient, now)
                        ELSE used_commitments[c]]
                /\ UNCHANGED deposit_records
           ELSE UNCHANGED <<vault_state, deposit_records, used_commitments, custody>>
        /\ refused' = IF err \in HandlerErrors THEN refused \cup {commitment} ELSE refused
        /\ UNCHANGED <<settlement_vars, obscura_vars, merkle_vars>>

\* withdraw_token whose record lives under a seed of its own, so that it sees
\* only the tokens the token path consumed
withdraw_token_error_own_seed(executor, commitment, amount) ==
    IF /\ commitment \in DOMAIN used_commitments
       /\ used_commitments[commitment].recipient \in TokenAccounts THEN "AccountAlreadyInUse"
    ELSE IF ~is_authorized(vault_state, executor) THEN "Unauthorized"
    ELSE IF vault_state.paused THEN "VaultPaused"
    ELSE IF ~(amount > 0) THEN "InvalidAmount"
    ELSE IF ~(custody.tokens >= amount) THEN "TransferFailed"
    ELSE "Ok"

\* withdraw_token: `init` of the UsedCommitment PDA, three require!, then the
\* token program's transfer out of the vault token account
withdraw_token_error(executor, commitment, amount) ==
    IF commitment \in DOMAIN used_commitments THEN "AccountAlreadyInUse"
    ELSE IF ~is_authorized(vault_state, executor) THEN "Unauthorized"
    ELSE IF vault_state.paused THEN "VaultPaused"
    ELSE IF ~(amount > 0) THEN "InvalidAmount"
    ELSE IF ~(custody.tokens >= amount) THEN "TransferFailed"
    ELSE "Ok"

withdraw_token(executor, commitment, amount, recipient, now) ==
    LET err == withdraw_token_error(executor, commitment, amount)
    IN  /\ IF err = "Ok"
           THEN /\ custody' = [custody EXCEPT !.tokens = @ - amount]
                /\ vault_state' = [vault_state EXCEPT !.withdrawal_nonce = @ + 1]
                /\ used_commitments' =
                      [c \in DOMAIN used_commitments \cup {commitment} |->
                        IF c = commitment
                        THEN new_used_commitment(executor, commitment, amount, recipient, now)
                        ELSE used_commitments[c]]
                /\ UNCHANGED deposit_records
           ELSE UNCHANGED <<vault_state, deposit_records, used_commitments, custody>>
        /\ refused' = IF err \in HandlerErrors THEN refused \cup {commitment} ELSE refused
        /\ UNCHANGED <<settlement_vars, obscura_vars, merkle_vars>>

\* admin instructions that are refused, like deposits, while the vault is paused
has_one_error_unless_paused(authority) ==
    IF authority # vault_state.authority THEN "ConstraintHasOne"
    ELSE IF vault_state.paused THEN "VaultPaused"
    ELSE "Ok"

\* the admin instructions guarded by has_one = authority
has_one_error(authority) ==
    IF authority # vault_state.authority THEN "ConstraintHasOne" ELSE "Ok"

set_settlement(authority, settlement) ==
    LET err == has_one_error(authority)
    IN  /\ IF err = "Ok"
           THEN vault_state' = [vault_state EXCEPT !.settlement = settlement]
           ELSE UNCHANGED vault_state
        /\ UNCHANGED <<deposit_records, used_commitments, custody>>
        /\ UNCHANGED <<refused, settlement_vars, obscura_vars, merkle_vars>>

\* transfer_authority of the vault without the require! on the new authority:
\* the owner withdraws a pending transfer by naming the default key
v_transfer_authority_error_no_target_check(authority, new_authority) ==
    IF authority # vault_state.authority THEN "ConstraintHasOne" ELSE "Ok"

v_transfer_authority_error(authority, new_authority) ==
    IF authority # vault_state.authority THEN "ConstraintHasOne"
    ELSE IF new_authority = DefaultPubkey THEN "InvalidPendingAuthority"
    ELSE "Ok"

v_transfer_authority(authority, new_authority) ==
    LET err == v_transfer_authority_error(authority, new_authority)
    IN  /\ IF err = "Ok"
           THEN vault_state' = [vault_state EXCEPT !.pending_authority = new_authority]
           ELSE UNCHANGED vault_state
        /\ UNCHANGED <<deposit_records, used_commitments, custody>>
        /\ UNCHANGED <<refused, settlement_vars, obscura_vars, merkle_vars>>

\* accept_authority that hands the settlement identity of the previous owner
\* over to the new owner
v_accept_authority_moves_settlement(new_authority) ==
    LET err == IF vault_state.pending_authority = DefaultPubkey THEN "NoPendingTransfer"
               ELSE IF new_authority # vault_state.pending_authority THEN "Unauthorized"
               ELSE "Ok"
    IN  /\ IF err = "Ok"
           THEN vault_state' = [vault_state EXCEPT
                                   !.authority = vault_state.pending_authority,
                                   !.settlement = IF @ = vault_state.authority
                                                  THEN vault_state.pending_authority
                                                  ELSE @,
                                   !.pending_authority = DefaultPubkey]
           ELSE UNCHANGED vault_state
        /\ UNCHANGED <<deposit_records, used_commitments, custody>>
        /\ UNCHANGED <<refused, settlement_vars, obscura_vars, merkle_vars>>

v_accept_authority_error(new_authority) ==
    IF vault_state.pending_authority = DefaultPubkey THEN "NoPendingTransfer"
    ELSE IF new_authority # vault_state.pending_authority THEN "Unauthorized"
    ELSE "Ok"

v_accept_authority(new_authority) ==
    LET err == v_accept_authority_error(new_authority)
    IN  /\ IF err = "Ok"
           THEN vault_state' = [vault_state EXCEPT
                                   !.authority = vault_state.pending_authority,
                                   !.pending_authority = DefaultPubkey]
           ELSE UNCHANGED vault_state
        /\ UNCHANGED <<deposit_records, used_commitments, custody>>
        /\ UNCHANGED <<refused, settlement_vars, obscura_vars, merkle_vars>>

pause(authority) ==
    LET err == has_one_error(authority)
    IN  /\ IF err = "Ok"
           THEN vault_state' = [vault_state EXCEPT !.paused = TRUE]
           ELSE UNCHANGED vault_state
        /\ UNCHANGED <<deposit_records, used_commitments, custody>>
        /\ UNCHANGED <<refused, settlement_vars, obscura_vars, merkle_vars>>

unpause(authority) ==
    LET err == has_one_error(authority)
    IN  /\ IF err = "Ok"
           THEN vault_state' = [vault_state EXCEPT !.paused = FALSE]
           ELSE UNCHANGED vault_state
        /\ UNCHANGED <<deposit_records, used_commitments, custody>>
        /\ UNCHANGED <<refused, settlement_vars, obscura_vars, merkle_vars>>

VaultNext ==
    \/ \E a \in Signers : v_initialize(a)
    \/ \E d \in Depositors, amt \in Amounts, now \in Times, ok \in BOOLEAN :
          deposit_native(d, amt, now, ok)
    \/ \E d \in Depositors, amt \in Amounts, m \in Mints, now \in Times, ok \in BOOLEAN :
          deposit_token(d, amt, m, now, ok)
    \/ \E e \in Signers, c \in Commitments, amt \in Amounts, r \in Recipients,
             now \in Times : withdraw_native(e, c, amt, r, now)
    \/ \E e \in Signers, c \in Commitments, amt \in Amounts, r \in TokenAccounts,
             now \in Times : withdraw_token(e, c, amt, r, now)
    \/ \E a \in Signers, s \in Pubkeys : set_settlement(a, s)
    \/ \E a \in Signers, n \in Pubkeys : v_transfer_authority(a, n)
    \/ \E n \in Signers : v_accept_authority(n)
    \/ \E a \in Signers : pause(a)
    \/ \E a \in Signers : unpause(a)

\* ============================================================ obscura_vault
\* nullifier hashes a claimer submits, the all-zero one included
Nullifiers == {ZeroBytes} \cup Commitments
\* signers of the privacy-claim vault's instructions
Claimers == Signers \cup {3}

\* initialize that marks the last nullifier as absent with a value no caller
\* submits
obscura_initialize_no_nullifier(authority) ==
    [authority |-> authority,
     relayer |-> authority,
     total_deposits |-> 0,
     total_claims |-> 0,
     last_commitment |-> ZeroBytes,
     last_nullifier |-> <<>>,
     paused |-> FALSE]

\* initialize: the fields the handler writes; `init` zero-fills the others
obscura_initialize(authority) ==
    [authority |-> authority,
     relayer |-> authority,
     total_deposits |-> 0,
     total_claims |-> 0,
     last_commitment |-> ZeroBytes,
     last_nullifier |-> ZeroBytes,
     paused |-> FALSE]

ObscuraInit ==
    /\ obscura_state = obscura_initialize(Deployer)
    /\ obscura_lamports = 0
    /\ claim_events = {}

\* initialize: `init` of the vault_state PDA, which exists and is never closed
o_initialize_error(authority) == "AccountAlreadyInUse"

o_initialize(authority) ==
    UNCHANGED vars

\* an AdminAction constraint that lets the relayer through as well
admin_constraint_error_or_relayer(authority) ==
    IF authority \notin {obscura_state.authority, obscura_state.relayer}
    THEN "Unauthorized" ELSE "Ok"

\* constraint = authority.key() == vault_state.authority @ ErrorCode::Unauthorized
admin_constraint_error(authority) ==
    IF authority # obscura_state.authority THEN "Unauthorized" ELSE "Ok"

set_relayer(authority, new_relayer) ==
    LET err == admin_constraint_error(authority)
    IN  /\ IF err = "Ok"
           THEN obscura_state' = [obscura_state EXCEPT !.relayer = new_relayer]
           ELSE UNCHANGED obscura_state
        /\ UNCHANGED <<obscura_lamports, claim_events>>
        /\ UNCHANGED <<settlement_vars, vault_vars, merkle_vars>>

o_deposit_error(amount, transfer_ok) ==
    IF obscura_state.paused THEN "VaultPaused"
    ELSE IF ~(amount > 0) THEN "ZeroAmount"
    ELSE IF ~transfer_ok THEN "TransferFailed"
    ELSE "Ok"

o_deposit(depositor, amount, commitment, transfer_ok) ==
    LET err == o_deposit_error(amount, transfer_ok)
    IN  /\ err = "Ok" => obscura_state.total_deposits < MaxDeposits
        /\ IF err = "Ok"
           THEN /\ obscura_lamports' = obscura_lamports + amount
                /\ obscura_state' = [obscura_state EXCEPT !.total_deposits = @ + 1]
           ELSE UNCHANGED <<obscura_state, obscura_lamports>>
        /\ UNCHANGED claim_events
        /\ UNCHANGED <<settlement_vars, vault_vars, merkle_vars>>

\* claim: the Claim accounts carry no constraint on the claimer; the handler
\* checks pause, amount and the last nullifier, then transfers from the vault PDA
claim_error(claimer, amount, nullifier_hash) ==
    IF obscura_state.paused THEN "VaultPaused"
    ELSE IF ~(amount > 0) THEN "ZeroAmount"
    ELSE IF ~(obscura_state.last_nullifier # nullifier_hash) THEN "NullifierAlreadyUsed"
    ELSE IF ~(obscura_lamports >= amount) THEN "TransferFailed"
    ELSE "Ok"

claim(claimer, amount, commitment, nullifier_hash) ==
    LET err == claim_error(claimer, amount, nullifier_hash)
    IN  /\ err = "Ok" => obscura_state.total_claims < MaxClaims
        /\ IF err = "Ok"
           THEN /\ obscura_lamports' = obscura_lamports - amount
                /\ obscura_state' = [obscura_state EXCEPT
                                        !.total_claims = @ + 1,
                                        !.last_nullifier = nullifier_hash,
                                        !.last_commitment = commitment]
                /\ claim_events' = claim_events \cup {nullifier_hash}
           ELSE UNCHANGED <<obscura_state, obscura_lamports, claim_events>>
        /\ UNCHANGED <<settlement_vars, vault_vars, merkle_vars>>

\* authority_claim that records the commitment as the last nullifier
authority_claim_records_nullifier(authority, amount, commitment) ==
    LET err == IF authority # obscura_state.authority THEN "Unauthorized"
               ELSE IF obscura_state.paused THEN "VaultPaused"
               ELSE IF ~(amount > 0) THEN "ZeroAmount"
               ELSE IF ~(obscura_lamports >= amount) THEN "TransferFailed"
               ELSE "Ok"
    IN  /\ err = "Ok" => obscura_state.total_claims < MaxClaims
        /\ IF err = "Ok"
           THEN /\ obscura_lamports' = obscura_lamports - amount
                /\ obscura_state' = [obscura_state EXCEPT
                                        !.total_claims = @ + 1,
                                        !.last_nullifier = commitment,
                                        !.last_commitment = commitment]
           ELSE UNCHANGED <<obscura_state, obscura_lamports>>
        /\ UNCHANGED claim_events
        /\ UNCHANGED <<settlement_vars, vault_vars, merkle_vars>>

authority_claim_error(authority, amount) ==
    IF authority # obscura_state.authority THEN "Unauthorized"
    ELSE IF obscura_state.paused THEN "VaultPaused"
    ELSE IF ~(amount > 0) THEN "ZeroAmount"
    ELSE IF ~(obscura_lamports >= amount) THEN "TransferFailed"
    ELSE "Ok"

authority_claim(authority, amount, commitment) ==
    LET err == authority_claim_error(authority, amount)
    IN  /\ err = "Ok" => obscura_state.total_claims < MaxClaims
        /\ IF err = "Ok"
           THEN /\ obscura_lamports' = obscura_lamports - amount
                /\ obscura_state' = [obscura_state EXCEPT
                                        !.total_claims = @ + 1,
                                        !.last_commitment = commitment]
           ELSE UNCHANGED <<obscura_state, obscura_lamports>>
        /\ UNCHANGED claim_events
        /\ UNCHANGED <<settlement_vars, vault_vars, merkle_vars>>

\* a RelayerClaim constraint that lets the owner through as well
relayer_claim_error_or_authority(relayer, amount, nullifier_hash) ==
    IF relayer \notin {obscura_state.relayer, obscura_state.authority}
       THEN "UnauthorizedRelayer"
    ELSE IF obscura_state.paused THEN "VaultPaused"
    ELSE IF ~(amount > 0) THEN "ZeroAmount"
    ELSE IF ~(obscura_state.last_nullifier # nullifier_hash) THEN "NullifierAlreadyUsed"
    ELSE IF ~(obscura_lamports >= amount) THEN "TransferFailed"
    ELSE "Ok"

relayer_claim_error(relayer, amount, nullifier_hash) ==
    IF relayer # obscura_state.relayer THEN "UnauthorizedRelayer"
    ELSE IF obscura_state.paused THEN "VaultPaused"
    ELSE IF ~(amount > 0) THEN "ZeroAmount"
    ELSE IF ~(obscura_state.last_nullifier # nullifier_hash) THEN "NullifierAlreadyUsed"
    ELSE IF ~(obscura_lamports >= amount) THEN "TransferFailed"
    ELSE "Ok"

relayer_claim(relayer, amount, commitment, nullifier_hash) ==
    LET err == relayer_claim_error(relayer, amount, nullifier_hash)
    IN  /\ err = "Ok" => obscura_state.total_claims < MaxClaims
        /\ IF err = "Ok"
           THEN /\ obscura_lamports' = obscura_lamports - amount
                /\ obscura_state' = [obscura_state EXCEPT
                                        !.total_claims = @ + 1,
                                        !.last_nullifier = nullifier_hash,
                                        !.last_commitment = commitment]
                /\ claim_events' = claim_events \cup {nullifier_hash}
           ELSE UNCHANGED <<obscura_state, obscura_lamports, claim_events>>
        /\ UNCHANGED <<settlement_vars, vault_vars, merkle_vars>>

o_pause(authority) ==
    LET err == admin_constraint_error(authority)
    IN  /\ IF err = "Ok"
           THEN obscura_state' = [obscura_state EXCEPT !.paused = TRUE]
           ELSE UNCHANGED obscura_state
        /\ UNCHANGED <<obscura_lamports, claim_events>>
        /\ UNCHANGED <<settlement_vars, vault_vars, merkle_vars>>

o_unpause(authority) ==
    LET err == admin_constraint_error(authority)
    IN  /\ IF err = "Ok"
           THEN obscura_state' = [obscura_state EXCEPT !.paused = FALSE]
           ELSE UNCHANGED obscura_state
        /\ UNCHANGED <<obscura_lamports, claim_events>>
        /\ UNCHANGED <<settlement_vars, vault_vars, merkle_vars>>

ObscuraNext ==
    \/ \E a \in Claimers : o_initialize(a)
    \/ \E a \in Claimers, r \in Pubkeys : set_relayer(a, r)
    \/ \E d \in Depositors, amt \in Amounts, c \in Commitments, ok \in BOOLEAN :
          o_deposit(d, amt, c, ok)
    \/ \E s \in Claimers, amt \in Amounts, c \in Commitments, n \in Nullifiers :
          claim(s, amt, c, n)
    \/ \E a \in Claimers, amt \in Amounts, c \in Commitments :
          authority_claim(a, amt, c)
    \/ \E r \in Claimers, amt \in Amounts, c \in Commitments, n \in Nullifiers :
          relayer_claim(r, amt, c, n)
    \/ \E a \in Claimers : o_pause(a)
    \/ \E a \in Claimers : o_unpause(a)

\* ========================================================== specifications
\* no stand-alone call of verify_merkle_proof is under way
MerkleIdle ==
    /\ merkle_call = <<>>
    /\ merkle_result = <<>>

Init == SettlementInit /\ VaultInit /\ ObscuraInit /\ MerkleIdle

SettlementSpec == Init /\ [][SettlementNext]_vars
VaultSpec == Init /\ [][VaultNext]_vars
ObscuraSpec == Init /\ [][ObscuraNext]_vars

\* The three programs share no account: an instruction of one reads and writes
\* the accounts of that program only.  ProgramsSpec runs each program, with all
\* its instructions, from the common initial state while the accounts of the
\* other two are as initialize left them.
SettlementAlone == VaultInit /\ ObscuraInit
VaultAlone == SettlementInit /\ ObscuraInit
ObscuraAlone == SettlementInit /\ VaultInit

ProgramsNext ==
    \/ SettlementAlone /\ \E a \in Signers :
          s_initialize(a)
    \/ SettlementAlone /\ \E e \in Signers, r \in Roots, now \in Times :
          update_root(e, r, now)
    \/ SettlementAlone /\ \E p \in Signers, c \in Commitments, pr \in Proofs, i \in LeafIndices, now \in Times :
          settle(p, c, pr, i, now)
    \/ SettlementAlone /\ \E a \in Signers, e \in Signers :
          add_executor(a, e)
    \/ SettlementAlone /\ \E a \in Signers, e \in Signers :
          remove_executor(a, e)
    \/ SettlementAlone /\ \E a \in Signers, n \in Pubkeys :
          s_transfer_authority(a, n)
    \/ SettlementAlone /\ \E n \in Signers :
          s_accept_authority(n)
    \/ SettlementAlone /\ \E a \in Signers :
          cancel_authority_transfer(a)
    \/ VaultAlone /\ \E a \in Signers :
          v_initialize(a)
    \/ VaultAlone /\ \E d \in Depositors, amt \in Amounts, now \in Times, ok \in BOOLEAN :
          deposit_native(d, amt, now, ok)
    \/ VaultAlone /\ \E d \in Depositors, amt \in Amounts, m \in Mints, now \in Times, ok \in BOOLEAN :
          deposit_token(d, amt, m, now, ok)
    \/ VaultAlone /\ \E e \in Signers, c \in Commitments, amt \in Amounts, r \in Recipients, now \in Times :
          withdraw_native(e, c, amt, r, now)
    \/ VaultAlone /\ \E e \in Signers, c \in Commitments, amt \in Amounts, r \in TokenAccounts, now \in Times :
          withdraw_token(e, c, amt, r, now)
    \/ VaultAlone /\ \E a \in Signers, s \in Pubkeys :
          set_settlement(a, s)
    \/ VaultAlone /\ \E a \in Signers, n \in Pubkeys :
          v_transfer_authority(a, n)
    \/ VaultAlone /\ \E n \in Signers :
          v_accept_authority(n)
    \/ VaultAlone /\ \E a \in Signers :
          pause(a)
    \/ VaultAlone /\ \E a \in Signers :
          unpause(a)
    \/ ObscuraAlone /\ \E a \in Claimers :
          o_initialize(a)
    \/ ObscuraAlone /\ \E a \in Claimers, r \in Pubkeys :
          set_relayer(a, r)
    \/ ObscuraAlone /\ \E d \in Depositors, amt \in Amounts, c \in Commitments, ok \in BOOLEAN :
          o_deposit(d, amt, c, ok)
    \/ ObscuraAlone /\ \E s \in Claimers, amt \in Amounts, c \in Commitments, n \in Nullifiers :
          claim(s, amt, c, n)
    \/ ObscuraAlone /\ \E a \in Claimers, amt \in Amounts, c \in Commitments :
          authority_claim(a, amt, c)
    \/ ObscuraAlone /\ \E r \in Claimers, amt \in Amounts, c \in Commitments, n \in Nullifiers :
          relayer_claim(r, amt, c, n)
    \/ ObscuraAlone /\ \E a \in Claimers :
          o_pause(a)
    \/ ObscuraAlone /\ \E a \in Claimers :
          o_unpause(a)

ProgramsSpec == Init /\ [][ProgramsNext]_vars

\* The executor array holds up to MAX_EXECUTORS keys, so that filling it takes
\* more keys than the signers of the other specifications: ExecutorSpec runs
\* sip-settlement with MAX_EXECUTORS + 1 executor keys, the default key and the
\* signers among them.
ExecutorKeys == 0..MAX_EXECUTORS

\* the executors in the array, in the order of their slots
CurrentExecutors ==
    [i \in 1..settlement_state.executor_count |-> settlement_state.executors[i]]

\* the lowest key that is not in the array
NextExecutor ==
    CHOOSE k \in ExecutorKeys :
        /\ \A i \in DOMAIN CurrentExecutors : CurrentExecutors[i] # k
        /\ \A j \in 0..(k - 1) : \E i \in DOMAIN CurrentExecutors : CurrentExecutors[i] = j

\* add_executor is called with a key of the array or with the lowest key that
\* is not in it
AddExecutorInputs ==
    {CurrentExecutors[i] : i \in DOMAIN CurrentExecutors} \cup {NextExecutor}

\* remove_executor is called with the key of the first slot, which the handler
\* overwrites with the last one, with the key of the last slot, or with a key
\* that is not in the array
RemoveExecutorInputs ==
    {CurrentExecutors[i] : i \in DOMAIN CurrentExecutors \cap
                                 {1, settlement_state.executor_count}}
        \cup {NextExecutor}

\* the root published in ExecutorSpec, by the deployer, who also pays for the
\* one settle
ExecutorRoot == hash_pair(Bytes32(2), Bytes32(4))

ExecutorNext ==
    \/ \E a \in Signers : s_initialize(a)
    \/ \E r \in {ZeroBytes, ExecutorRoot}, now \in Times :
          update_root(Deployer, r, now)
    \/ \E pr \in {<<>>, <<Bytes32(4)>>}, now \in Times :
          settle(Deployer, Bytes32(2), pr, 0, now)
    \/ \E a \in Signers, e \in AddExecutorInputs : add_executor(a, e)
    \/ \E a \in Signers, e \in RemoveExecutorInputs : remove_executor(a, e)
    \/ \E a \in Signers, n \in Pubkeys : s_transfer_authority(a, n)
    \/ \E n \in Signers : s_accept_authority(n)
    \/ \E a \in Signers : cancel_authority_transfer(a)

ExecutorSpec == Init /\ [][ExecutorNext]_vars

\* verify_merkle_proof on its own: MerkleSpec starts with a call of the
\* function pending, on a leaf, a sibling path of up to MaxPath nodes, an index
\* and a root, and its one step runs the function and records what it returns.
MerkleNodes == {Bytes32(2), Bytes32(4)}

RECURSIVE MerklePathsOfLength(_)
MerklePathsOfLength(n) ==
    IF n = 0 THEN {<<>>}
    ELSE {Append(p, x) : p \in MerklePathsOfLength(n - 1), x \in MerkleNodes}

MerklePaths == UNION {MerklePathsOfLength(n) : n \in 0..MaxPath}

RECURSIVE Pow2(_)
Pow2(n) == IF n = 0 THEN 1 ELSE 2 * Pow2(n - 1)

\* every position of a tree of depth MaxPath, and one index beyond them
MerkleIndices == 0..Pow2(MaxPath)

RECURSIVE MerkleTreesOfDepth(_)
\* the nodes at height n of the trees over MerkleNodes that have a leaf and
\* one sibling per level
MerkleTreesOfDepth(n) ==
    IF n = 0 THEN MerkleNodes
    ELSE UNION {{hash_pair(t, x), hash_pair(x, t)} :
                    t \in MerkleTreesOfDepth(n - 1), x \in MerkleNodes}

\* the roots a call is made with: the zero root, leaves, and every root of a
\* tree of depth up to MaxPath
MerkleRoots == {ZeroBytes} \cup UNION {MerkleTreesOfDepth(n) : n \in 0..MaxPath}

MerkleInit ==
    /\ SettlementInit /\ VaultInit /\ ObscuraInit
    /\ merkle_call \in [leaf : MerkleNodes, proof : MerklePaths,
                        index : MerkleIndices, root : MerkleRoots]
    /\ merkle_result = <<>>

merkle_verify ==
    /\ merkle_call # <<>>
    /\ merkle_result = <<>>
    /\ merkle_result' = <<verify_merkle_proof(merkle_call.leaf, merkle_call.proof,
                                              merkle_call.index, merkle_call.root)>>
    /\ UNCHANGED <<merkle_call, settlement_vars, vault_vars, obscura_vars>>

MerkleNext == merkle_verify

MerkleSpec == MerkleInit /\ [][MerkleNext]_vars

\* settle on the arguments of a call of verify_merkle_proof: SettleIndexSpec
\* starts like MerkleSpec, and besides running the function on its own the
\* deployer publishes the root of the call and settles its leaf with its
\* sibling path, under each index.
SettleIndexNext ==
    \/ merkle_verify
    \/ \E now \in Times : update_root(Deployer, merkle_call.root, now)
    \/ \E j \in MerkleIndices, now \in Times :
          settle(Deployer, merkle_call.leaf, merkle_call.proof, j, now)

SettleIndexSpec == MerkleInit /\ [][SettleIndexNext]_vars

\* ================================================================== claims
\* identities that are the current owner or in the executor set (settlement)
SettlementAuthorized ==
    {settlement_state.authority}
        \cup {settlement_state.executors[i] : i \in 1..settlement_state.executor_count}

\* ----------------------------------------------------------------------- C1
\* C1: whatever happens between the attempts (root rotations, owner and
\* executor changes), settle with a commitment that already has a
\* UsedCommitment record returns an error for every payer, proof and leaf
\* index, and no step removes or rewrites an existing UsedCommitment record:
\* a commitment is settled at most once.
C1_SettleAtMostOnce ==
    /\ [](\A c \in DOMAIN settled : \A p \in Signers, pr \in Proofs, i \in LeafIndices :
            settle_error(p, c, pr, i) # "Ok")
    /\ [][\A c \in DOMAIN settled : c \in DOMAIN settled' /\ settled'[c] = settled[c]]_vars

\* a commitment settled under an earlier batch, the root rotated and the owner
\* replaced since, a proof that verifies against the current root, and the
\* replay still refused
C1_Witness ==
    \E c \in DOMAIN settled :
        /\ settled[c].batch_id < settlement_state.batch_id
        /\ settlement_state.authority # Deployer
        /\ \E p \in Signers, pr \in Proofs, i \in LeafIndices :
              /\ verify_merkle_proof(c, pr, i, settlement_state.current_root)
              /\ settle_error(p, c, pr, i) = "AccountAlreadyInUse"

\* ----------------------------------------------------------------------- C5
\* C5: update_root signed by an identity that is neither the owner nor in the
\* executor set returns Unauthorized for every new root, the all-zero root
\* included, and such a call changes neither the settlement state (current
\* root, batch id) nor the batch history.
C5_UpdateRootUnauthorized ==
    /\ [](\A e \in Signers \ SettlementAuthorized : \A r \in Roots :
            update_root_error(e, r) = "Unauthorized")
    /\ [][\A e \in Signers \ SettlementAuthorized : \A r \in Roots, now \in Times :
            update_root(e, r, now) =>
                UNCHANGED <<settlement_state, batch_roots>>]_vars
    /\ [][\A b \in DOMAIN batch_roots' \ DOMAIN batch_roots :
            batch_roots'[b].executor \in SettlementAuthorized]_vars

\* roots have been rotated, and a signer outside the owner and executor set
\* is refused with the zero root as with a non-zero one
C5_Witness ==
    /\ settlement_state.batch_id >= 1
    /\ settlement_state.executor_count >= 1
    /\ \E e \in Signers \ SettlementAuthorized :
          \A r \in Roots : update_root_error(e, r) = "Unauthorized"

\* ----------------------------------------------------------------------- C6
\* C6: settle signed by an identity that is neither the owner nor an executor
\* always fails: such a call never creates a UsedCommitment record.
C6_SettleRequiresExecutor ==
    [][\A p \in Signers \ SettlementAuthorized :
         \A c \in Commitments, pr \in Proofs, i \in LeafIndices, now \in Times :
            settle(p, c, pr, i, now) => settled' = settled]_vars

\* ------------------------------------------------- sip-vault claim helpers
\* the identities the vault lets withdraw
VaultAuthorized == {vault_state.authority, vault_state.settlement}

RECURSIVE SumAmounts(_)
SumAmounts(records) ==
    IF records = {} THEN 0
    ELSE LET r == CHOOSE x \in records : TRUE
         IN  r.amount + SumAmounts(records \ {r})

DepositsMade == {deposit_records[n] : n \in DOMAIN deposit_records}
WithdrawalsMade == {used_commitments[c] : c \in DOMAIN used_commitments}
NativeDeposits == {r \in DepositsMade : r.token_mint = DefaultPubkey}
NativeWithdrawals == {r \in WithdrawalsMade : r.recipient \in Recipients}

\* ----------------------------------------------------------------------- C2
\* C2: a token with a UsedCommitment record is refused by withdraw_native and by
\* withdraw_token alike, whoever calls and whatever the amount; a record, once
\* written, is never removed or overwritten; and the number of successful
\* withdrawals equals the number of consumed tokens
C2_OneWithdrawalPerToken ==
    /\ [](\A c \in DOMAIN used_commitments : \A e \in Signers, amt \in Amounts :
            /\ withdraw_native_error(e, c, amt) # "Ok"
            /\ withdraw_token_error(e, c, amt) # "Ok")
    /\ [][\A c \in DOMAIN used_commitments :
            c \in DOMAIN used_commitments' /\ used_commitments'[c] = used_commitments[c]]_vars
    /\ [](vault_state.withdrawal_nonce = Cardinality(DOMAIN used_commitments))

\* a token consumed by withdraw_native is presented to withdraw_token by an
\* authorized caller, unpaused, with an amount the token account holds
C2_Witness ==
    \E c \in DOMAIN used_commitments : \E e \in Signers, amt \in Amounts :
        /\ used_commitments[c].recipient \in Recipients
        /\ e \in VaultAuthorized
        /\ ~vault_state.paused
        /\ amt > 0
        /\ custody.tokens >= amt
        /\ withdraw_token_error(e, c, amt) = "AccountAlreadyInUse"

\* ----------------------------------------------------------------------- C4
\* C4 as stated: a withdrawal by a signer that is neither the authority nor the
\* settlement identity always fails with Unauthorized
C4_AlwaysUnauthorized ==
    \A e \in Signers \ VaultAuthorized : \A c \in Commitments, amt \in Amounts :
        /\ withdraw_native_error(e, c, amt) = "Unauthorized"
        /\ withdraw_token_error(e, c, amt) = "Unauthorized"

\* C4: a withdrawal by a signer that is neither the authority nor the settlement
\* identity fails with Unauthorized when its token is unused and with the
\* runtime's account-already-in-use error when the token is consumed, whatever
\* the amount, the balance and the pause flag; the vault's accounts do not change
C4_UnauthorizedWithdraw ==
    /\ [](\A e \in Signers \ VaultAuthorized : \A c \in Commitments, amt \in Amounts :
            LET expected == IF c \in DOMAIN used_commitments
                            THEN "AccountAlreadyInUse" ELSE "Unauthorized"
            IN  /\ withdraw_native_error(e, c, amt) = expected
                /\ withdraw_token_error(e, c, amt) = expected)
    /\ [][\A e \in Signers \ VaultAuthorized :
            \A c \in Commitments, amt \in Amounts, now \in Times :
                /\ \A r \in Recipients :
                      withdraw_native(e, c, amt, r, now) => UNCHANGED vault_accounts
                /\ \A r \in TokenAccounts :
                      withdraw_token(e, c, amt, r, now) => UNCHANGED vault_accounts]_vars

\* an unauthorized signer's withdrawal was refused while the vault is paused,
\* one token is consumed and another is not
C4_Witness ==
    \E e \in Signers \ VaultAuthorized : \E c \in DOMAIN used_commitments :
        \E d \in refused \ DOMAIN used_commitments :
            /\ vault_state.paused
            /\ vault_state.sol_balance = 0
            /\ withdraw_native_error(e, c, 1) = "AccountAlreadyInUse"
            /\ withdraw_token_error(e, d, 0) = "Unauthorized"
            /\ withdraw_native_error(e, d, MaxAmount) = "Unauthorized"

\* ----------------------------------------------------------------------- C8
\* C8 as stated: sol_balance is the sum of all deposits, native and token, minus
\* the sum of all withdrawals, native and token
C8_AllDepositsMinusAllWithdrawals ==
    vault_state.sol_balance = SumAmounts(DepositsMade) - SumAmounts(WithdrawalsMade)

\* C8: sol_balance is the sum of the deposit_native amounts minus the sum of the
\* withdraw_native amounts, and is the lamports the vault holds; deposit_token
\* and withdraw_token leave it alone
C8_SolBalance ==
    /\ vault_state.sol_balance = SumAmounts(NativeDeposits) - SumAmounts(NativeWithdrawals)
    /\ vault_state.sol_balance = custody.lamports
    /\ custody.tokens = SumAmounts(DepositsMade \ NativeDeposits)
                            - SumAmounts(WithdrawalsMade \ NativeWithdrawals)

\* deposits and withdrawals of both kinds have happened
C8_Witness ==
    /\ NativeDeposits # {}
    /\ DepositsMade \ NativeDeposits # {}
    /\ NativeWithdrawals # {}
    /\ WithdrawalsMade \ NativeWithdrawals # {}
    /\ vault_state.sol_balance > 0

\* ----------------------------------------------------------------------- C9
\* C9 as stated, in its weakest reading: no withdrawal of either kind by an
\* authorized caller, unpaused, with amount > 0 goes through when the amount
\* exceeds sol_balance
C9_EveryWithdrawalChecksBalance ==
    \A e \in Signers \cap VaultAuthorized : \A c \in Commitments, amt \in Amounts :
        (amt > 0 /\ ~vault_state.paused /\ amt > vault_state.sol_balance)
            => /\ withdraw_native_error(e, c, amt) # "Ok"
               /\ withdraw_token_error(e, c, amt) # "Ok"

\* C9: withdraw_native by an authorized caller with an unused token, unpaused,
\* with amount > 0 is refused with InsufficientBalance whenever the amount
\* exceeds sol_balance, and changes no account; sol_balance is never negative
C9_InsufficientBalance ==
    /\ [](\A e \in Signers \cap VaultAuthorized :
            \A c \in Commitments \ DOMAIN used_commitments, amt \in Amounts :
                (amt > 0 /\ ~vault_state.paused /\ amt > vault_state.sol_balance)
                    => withdraw_native_error(e, c, amt) = "InsufficientBalance")
    /\ [](vault_state.sol_balance >= 0)
    /\ [][\A e \in Signers, c \in Commitments, amt \in Amounts, r \in Recipients,
            now \in Times :
                (amt > vault_state.sol_balance /\ withdraw_native(e, c, amt, r, now))
                    => UNCHANGED vault_accounts]_vars

\* part of the balance was withdrawn and a withdraw_native of more than the
\* rest was refused
C9_Witness ==
    \E e \in Signers \cap VaultAuthorized : \E c \in refused \ DOMAIN used_commitments :
        /\ ~vault_state.paused
        /\ vault_state.sol_balance = 1
        /\ NativeWithdrawals # {}
        /\ withdraw_native_error(e, c, MaxAmount) = "InsufficientBalance"

\* ---------------------------------------------------------------------- C10
\* C10: a withdrawal refused with Unauthorized, VaultPaused, InvalidAmount or
\* InsufficientBalance writes no UsedCommitment record, and a token without a
\* record is accepted from an authorized caller, unpaused, with a positive
\* amount the vault covers
C10_FailedWithdrawKeepsToken ==
    /\ [][\A e \in Signers, c \in Commitments, amt \in Amounts, now \in Times :
            /\ \A r \in Recipients :
                  (withdraw_native_error(e, c, amt) \in HandlerErrors
                      /\ withdraw_native(e, c, amt, r, now))
                    => (c \notin DOMAIN used_commitments' /\ UNCHANGED vault_accounts)
            /\ \A r \in TokenAccounts :
                  (withdraw_token_error(e, c, amt) \in HandlerErrors
                      /\ withdraw_token(e, c, amt, r, now))
                    => (c \notin DOMAIN used_commitments' /\ UNCHANGED vault_accounts)]_vars
    /\ [](\A c \in refused : c \in DOMAIN used_commitments
            \/ \A e \in Signers \cap VaultAuthorized, amt \in Amounts :
                  (amt > 0 /\ ~vault_state.paused)
                      => /\ amt <= vault_state.sol_balance
                            => withdraw_native_error(e, c, amt) = "Ok"
                         /\ amt <= custody.tokens
                            => withdraw_token_error(e, c, amt) = "Ok")

\* a token whose withdrawal was refused was withdrawn afterwards, and another
\* refused token is still usable
C10_Witness ==
    /\ \E c \in refused : c \in DOMAIN used_commitments
    /\ \E c \in refused \ DOMAIN used_commitments : \E e \in Signers :
          withdraw_native_error(e, c, 1) = "Ok"


\* ------------------------------------------------------------------------ C3
\* C3: a nullifier carried by an emitted claim event is never accepted again:
\* a later claim or relayer_claim that presents it moves nothing and changes
\* nothing, however many other nullifiers were accepted in between
C3_NullifierNeverReused ==
    [][\A n \in claim_events : \A s \in Claimers, amt \in Amounts, c \in Commitments :
          (claim(s, amt, c, n) \/ relayer_claim(s, amt, c, n))
              => UNCHANGED obscura_vars]_vars

\* ------------------------------------------------------------------------ C7
\* C7: a claim, relayer_claim or authority_claim signed by neither the
\* relayer nor the owner never takes lamports out of the vault
C7_ClaimRequiresRelayerOrOwner ==
    [][\A s \in Claimers \ {obscura_state.authority, obscura_state.relayer} :
          \A amt \in Amounts, c \in Commitments :
              /\ authority_claim(s, amt, c) => obscura_lamports' >= obscura_lamports
              /\ \A n \in Nullifiers :
                    (claim(s, amt, c, n) \/ relayer_claim(s, amt, c, n))
                        => obscura_lamports' >= obscura_lamports]_vars

\* ----------------------------------------------------------------------- C11
\* the failing calls of sip-settlement that a step can be, if the step changes
\* an account of the program
FailedSettlementCall ==
    \/ \E a \in Signers : s_initialize(a)
    \/ \E e \in Signers, r \in Roots, now \in Times :
          update_root_error(e, r) # "Ok" /\ update_root(e, r, now)
    \/ \E p \in Signers, c \in Commitments, pr \in Proofs, i \in LeafIndices,
          now \in Times :
          settle_error(p, c, pr, i) # "Ok" /\ settle(p, c, pr, i, now)
    \/ \E a \in Signers, e \in Signers :
          \/ add_executor_error(a, e) # "Ok" /\ add_executor(a, e)
          \/ remove_executor_error(a, e) # "Ok" /\ remove_executor(a, e)
    \/ \E a \in Signers, n \in Pubkeys :
          s_transfer_authority_error(a, n) # "Ok" /\ s_transfer_authority(a, n)
    \/ \E n \in Signers :
          s_accept_authority_error(n) # "Ok" /\ s_accept_authority(n)
    \/ \E a \in Signers :
          cancel_authority_transfer_error(a) # "Ok" /\ cancel_authority_transfer(a)

\* the same for sip-vault
FailedVaultCall ==
    \/ \E a \in Signers : v_initialize(a)
    \/ \E d \in Depositors, amt \in Amounts, now \in Times, ok \in BOOLEAN :
          /\ deposit_error(amt, ok) # "Ok"
          /\ \/ deposit_native(d, amt, now, ok)
             \/ \E m \in Mints : deposit_token(d, amt, m, now, ok)
    \/ \E e \in Signers, c \in Commitments, amt \in Amounts, now \in Times :
          \/ /\ withdraw_native_error(e, c, amt) # "Ok"
             /\ \E r \in Recipients : withdraw_native(e, c, amt, r, now)
          \/ /\ withdraw_token_error(e, c, amt) # "Ok"
             /\ \E r \in TokenAccounts : withdraw_token(e, c, amt, r, now)
    \/ \E a \in Signers :
          /\ has_one_error(a) # "Ok"
          /\ \/ \E st \in Pubkeys : set_settlement(a, st)
             \/ pause(a)
             \/ unpause(a)
    \/ \E a \in Signers, n \in Pubkeys :
          v_transfer_authority_error(a, n) # "Ok" /\ v_transfer_authority(a, n)
    \/ \E n \in Signers :
          v_accept_authority_error(n) # "Ok" /\ v_accept_authority(n)

\* the same for obscura_vault
FailedObscuraCall ==
    \/ \E a \in Claimers : o_initialize(a)
    \/ \E a \in Claimers :
          /\ admin_constraint_error(a) # "Ok"
          /\ \/ \E r \in Pubkeys : set_relayer(a, r)
             \/ o_pause(a)
             \/ o_unpause(a)
    \/ \E d \in Depositors, amt \in Amounts, c \in Commitments, ok \in BOOLEAN :
          o_deposit_error(amt, ok) # "Ok" /\ o_deposit(d, amt, c, ok)
    \/ \E sg \in Claimers, amt \in Amounts, c \in Commitments :
          \/ authority_claim_error(sg, amt) # "Ok" /\ authority_claim(sg, amt, c)
          \/ \E n \in Nullifiers :
                \/ claim_error(sg, amt, n) # "Ok" /\ claim(sg, amt, c, n)
                \/ relayer_claim_error(sg, amt, n) # "Ok" /\ relayer_claim(sg, amt, c, n)

C12_OneOfTwoSucceeds ==
    [][/\ \/ UNCHANGED settled
          \/ \A c \in Commitments :
                (\E p \in Signers, pr \in Proofs, i \in LeafIndices, now \in Times :
                    settle_error(p, c, pr, i) = "Ok" /\ settle(p, c, pr, i, now))
                => \A p \in Signers, pr \in Proofs, i \in LeafIndices :
                      (settle_error(p, c, pr, i))' # "Ok"
       /\ \/ UNCHANGED <<used_commitments, custody>>
          \/ \A c \in Commitments, e \in Signers, amt \in Amounts :
                (\E now \in Times :
                    \/ /\ withdraw_native_error(e, c, amt) = "Ok"
                       /\ \E r \in Recipients : withdraw_native(e, c, amt, r, now)
                    \/ /\ withdraw_token_error(e, c, amt) = "Ok"
                       /\ \E r \in TokenAccounts : withdraw_token(e, c, amt, r, now))
                => /\ \A e2 \in Signers, amt2 \in Amounts :
                        /\ (withdraw_native_error(e2, c, amt2))' # "Ok"
                        /\ (withdraw_token_error(e2, c, amt2))' # "Ok"
                   /\ custody'.lamports + custody'.tokens
                         = custody.lamports + custody.tokens - amt
                   /\ SumAmounts(WithdrawalsMade') = SumAmounts(WithdrawalsMade) + amt]_vars

\* a token withdrawn by one authorized caller is presented again to
\* withdraw_native by the other one, the vault unpaused and holding the amount:
\* the second call of the pair is the one refused
C12_Witness ==
    \E c \in DOMAIN used_commitments : \E e \in VaultAuthorized, amt \in Amounts :
        /\ e # used_commitments[c].executor
        /\ used_commitments[c].amount = amt
        /\ ~vault_state.paused
        /\ vault_state.sol_balance >= amt
        /\ withdraw_native_error(e, c, amt) = "AccountAlreadyInUse"
        /\ withdraw_native_error(used_commitments[c].executor, c, amt)
              = "AccountAlreadyInUse"

\* ---------------------------------------------------------------------- C13
\* C13: in sip-settlement and in sip-vault, accept_authority returns
\* NoPendingTransfer while no authority is pending, Unauthorized for every
\* signer other than the pending authority, and succeeds for the pending
\* authority alone; a successful transfer_authority makes its argument the
\* pending authority, so that every other signer, the one an earlier transfer
\* named included, is refused with Unauthorized in the state it leaves; a
\* successful accept_authority makes the pending authority the owner and
\* clears the pending authority; a refused one changes nothing.
C13_AcceptAuthority ==
    /\ [](\A n \in Signers :
            /\ s_accept_authority_error(n) = "Ok"
                  <=> n = settlement_state.pending_authority
            /\ s_accept_authority_error(n) = "NoPendingTransfer"
                  <=> settlement_state.pending_authority = DefaultPubkey
            /\ s_accept_authority_error(n) = "Unauthorized"
                  <=> settlement_state.pending_authority \notin {DefaultPubkey, n}
            /\ v_accept_authority_error(n) = "Ok"
                  <=> n = vault_state.pending_authority
            /\ v_accept_authority_error(n) = "NoPendingTransfer"
                  <=> vault_state.pending_authority = DefaultPubkey
            /\ v_accept_authority_error(n) = "Unauthorized"
                  <=> vault_state.pending_authority \notin {DefaultPubkey, n})
    /\ [][\A n \in Signers :
            /\ s_accept_authority(n) =>
                  IF n = settlement_state.pending_authority
                  THEN /\ settlement_state'.authority = n
                       /\ settlement_state'.pending_authority = DefaultPubkey
                  ELSE UNCHANGED settlement_state
            /\ v_accept_authority(n) =>
                  IF n = vault_state.pending_authority
                  THEN /\ vault_state'.authority = n
                       /\ vault_state'.pending_authority = DefaultPubkey
                  ELSE UNCHANGED vault_state]_vars
    /\ [][\A a \in Signers, n \in Pubkeys :
            /\ s_transfer_authority_error(a, n) = "Ok" /\ s_transfer_authority(a, n)
                  => /\ settlement_state'.pending_authority = n
                     /\ \A m \in Signers \ {n} :
                           (s_accept_authority_error(m))' = "Unauthorized"
            /\ v_transfer_authority_error(a, n) = "Ok" /\ v_transfer_authority(a, n)
                  => /\ vault_state'.pending_authority = n
                     /\ \A m \in Signers \ {n} :
                           (v_accept_authority_error(m))' = "Unauthorized"]_vars

\* the owner has been replaced through the two steps, and the new owner has
\* named a successor: the successor alone can accept, the new owner is refused
C13_Witness ==
    /\ settlement_state.authority # Deployer
    /\ settlement_state.pending_authority = Deployer
    /\ s_accept_authority_error(settlement_state.authority) = "Unauthorized"
    /\ s_accept_authority_error(Deployer) = "Ok"

\* ---------------------------------------------------------------------- C14
\* C14: cancel_authority_transfer signed by anyone but the owner is refused and
\* changes nothing; signed by the owner it succeeds whether or not an authority
\* is pending, leaves the pending authority empty and the owner and everything
\* else in the settlement state as they were. From then on accept_authority
\* returns NoPendingTransfer to every signer, the one whose pending transfer
\* was cancelled included, and the pending authority stays empty until a
\* transfer_authority succeeds.
C14_CancelAuthorityTransfer ==
    /\ [](\A a \in Signers :
            cancel_authority_transfer_error(a) = "Ok" <=> a = settlement_state.authority)
    /\ [][\A a \in Signers :
            cancel_authority_transfer(a) =>
                IF a = settlement_state.authority
                THEN /\ settlement_state' =
                          [settlement_state EXCEPT !.pending_authority = DefaultPubkey]
                     /\ \A n \in Signers :
                           (s_accept_authority_error(n))' = "NoPendingTransfer"
                     /\ UNCHANGED <<batch_roots, settled>>
                ELSE UNCHANGED settlement_accounts]_vars
    /\ [](cancelled # DefaultPubkey =>
            /\ settlement_state.pending_authority = DefaultPubkey
            /\ s_accept_authority_error(cancelled) = "NoPendingTransfer")
    /\ [][/\ settlement_state.pending_authority = DefaultPubkey
          /\ settlement_state'.pending_authority # DefaultPubkey
          => \E a \in Signers, n \in Pubkeys :
                s_transfer_authority_error(a, n) = "Ok" /\ s_transfer_authority(a, n)]_vars

\* a pending transfer to a signer who is not the owner was cancelled, roots
\* were rotated since, and no new transfer was made: the signer is refused
C14_Witness ==
    /\ cancelled # DefaultPubkey
    /\ cancelled # settlement_state.authority
    /\ settlement_state.batch_id >= 1
    /\ s_accept_authority_error(cancelled) = "NoPendingTransfer"

\* ---------------------------------------------------------------------- C15
\* C15: in every state reached by add_executor and remove_executor calls,
\* interleaved with the other instructions of sip-settlement, executor_count
\* is at most MAX_EXECUTORS (10) and no key occupies two of the first
\* executor_count slots of the executor array.
C15_ExecutorSetBounded ==
    /\ settlement_state.executor_count <= MAX_EXECUTORS
    /\ \A i, j \in 1..settlement_state.executor_count :
          settlement_state.executors[i] = settlement_state.executors[j] => i = j

\* the array is full after a removal moved the last key into the first slot,
\* and the owner, replaced since deployment, is refused an eleventh key and a
\* key that is already there
C15_Witness ==
    /\ settlement_state.executor_count = MAX_EXECUTORS
    /\ settlement_state.executors[1] > settlement_state.executors[2]
    /\ settlement_state.authority # Deployer
    /\ add_executor_error(settlement_state.authority, NextExecutor) = "MaxExecutorsReached"
    /\ add_executor_error(settlement_state.authority, settlement_state.executors[1])
          = "ExecutorAlreadyExists"

\* ---------------------------------------------------------------------- C16
\* C16 as stated: update_root with the all-zero root returns InvalidRoot to
\* every caller, authorized or not, in every state
C16_ZeroRootAlwaysInvalidRoot ==
    \A e \in Signers : update_root_error(e, ZeroBytes) = "InvalidRoot"

\* C16: update_root with the all-zero root fails for every caller and in every
\* state, with InvalidRoot when the caller is the owner or an executor and with
\* Unauthorized when it is not (the handler checks the caller first), and the
\* call leaves the settlement state, current_root and batch_id with it, and
\* the batch history unchanged.
C16_ZeroRootRejected ==
    /\ [](\A e \in Signers :
            update_root_error(e, ZeroBytes) =
                IF e \in SettlementAuthorized THEN "InvalidRoot" ELSE "Unauthorized")
    /\ [][\A e \in Signers, now \in Times :
            update_root(e, ZeroBytes, now) =>
                UNCHANGED <<settlement_state, batch_roots, settled>>]_vars

\* a non-zero root is current, and the zero root is refused to the owner with
\* InvalidRoot and to a signer who is neither owner nor executor with
\* Unauthorized
C16_Witness ==
    /\ settlement_state.batch_id >= 1
    /\ settlement_state.current_root # ZeroBytes
    /\ update_root_error(settlement_state.authority, ZeroBytes) = "InvalidRoot"
    /\ \E e \in Signers \ SettlementAuthorized :
          update_root_error(e, ZeroBytes) = "Unauthorized"

\* ---------------------------------------------------------------------- C17
\* C17 as stated: settle with an empty proof returns EmptyProof and settle with
\* a proof of more than MAX_PROOF_LENGTH (32) siblings returns ProofTooLong,
\* for every payer, commitment and leaf index, in every state
C17_LengthErrorsAlways ==
    \A p \in Signers, c \in Commitments, i \in LeafIndices :
        /\ settle_error(p, c, <<>>, i) = "EmptyProof"
        /\ settle_error(p, c, LongProof, i) = "ProofTooLong"

\* C17: for a commitment that is not settled yet, settle with an empty proof
\* returns EmptyProof and settle with a proof of more than MAX_PROOF_LENGTH
\* siblings returns ProofTooLong, whatever the current root, and a proof of
\* exactly MAX_PROOF_LENGTH siblings gets past the length checks: it is
\* accepted or refused by the Merkle verification. For a commitment that is
\* settled, the three calls fail in account validation. A call with an empty
\* or an overlong proof changes no account: the commitment is not consumed.
C17_ProofLengthBounds ==
    /\ [](\A p \in Signers, c \in Commitments, i \in LeafIndices :
            IF c \in DOMAIN settled
            THEN \A pr \in {<<>>, Proof32, LongProof} :
                    settle_error(p, c, pr, i) = "AccountAlreadyInUse"
            ELSE /\ settle_error(p, c, <<>>, i) = "EmptyProof"
                 /\ settle_error(p, c, LongProof, i) = "ProofTooLong"
                 /\ settle_error(p, c, Proof32, i) =
                       IF verify_merkle_proof(c, Proof32, i, settlement_state.current_root)
                       THEN "Ok" ELSE "InvalidProof")
    /\ [][\/ UNCHANGED settlement_accounts
          \/ \A p \in Signers, c \in Commitments, i \in LeafIndices, now \in Times :
                \A pr \in {<<>>, LongProof} : ~settle(p, c, pr, i, now)]_vars

\* the current root is the root of a path of MAX_PROOF_LENGTH siblings: for a
\* commitment not settled yet the proof of that length is accepted, the empty
\* and the overlong one are refused on their length, while another commitment
\* has been settled
C17_Witness ==
    /\ Len(Proof32) = MAX_PROOF_LENGTH
    /\ Len(LongProof) > MAX_PROOF_LENGTH
    /\ \E c \in Commitments \ DOMAIN settled, p \in Signers, i \in LeafIndices :
          /\ settle_error(p, c, Proof32, i) = "Ok"
          /\ settle_error(p, c, <<>>, i) = "EmptyProof"
          /\ settle_error(p, c, LongProof, i) = "ProofTooLong"
    /\ DOMAIN settled # {}

\* ---------------------------------------------------------------------- C18
\* bit k of an index, k counted from 0 at the least significant bit
BitOfIndex(index, k) == (index \div Pow2(k)) % 2

RECURSIVE ReferenceNode(_, _, _, _)
\* the node after k steps of the reference fold: step k (from 1) combines the
\* node with sibling k as H(sibling, node) if bit k - 1 of the index is 1 and
\* as H(node, sibling) if it is 0
ReferenceNode(leaf, proof, index, k) ==
    IF k = 0 THEN leaf
    ELSE LET node == ReferenceNode(leaf, proof, index, k - 1)
         IN  IF BitOfIndex(index, k - 1) = 1
             THEN <<1, proof[k], node>>
             ELSE <<1, node, proof[k]>>

\* C18: for every leaf, sibling path of up to MaxPath nodes, index and root,
\* verify_merkle_proof returns true exactly when the reference fold of the
\* path from the leaf, which at step k puts the sibling on the left if bit k
\* of the index is 1 and on the right if it is 0, ends in the root.
C18_VerifyMatchesReferenceFold ==
    merkle_result # <<>> =>
        merkle_result[1] =
            (ReferenceNode(merkle_call.leaf, merkle_call.proof, merkle_call.index,
                           Len(merkle_call.proof)) = merkle_call.root)

\* a call with a path of MaxPath siblings and an index whose lowest bit is 1
\* and whose next bit is 0 returned true, the sibling of the first step
\* differing from the leaf and from the sibling of the second step
C18_Witness ==
    /\ merkle_result = <<TRUE>>
    /\ Len(merkle_call.proof) = MaxPath
    /\ merkle_call.index % 4 = 1
    /\ merkle_call.proof[1] # merkle_call.leaf
    /\ merkle_call.proof[1] # merkle_call.proof[MaxPath]

\* ---------------------------------------------------------------------- C19
\* C19: settle accepts a proof only if it recomputes to the root that is
\* current when it is called. A settle of a commitment that is not settled,
\* with a proof of admissible length, succeeds if the proof recomputes to
\* current_root and returns InvalidProof if it does not, also when it
\* recomputes to the root of an earlier batch; and when update_root replaces
\* the current root by a different one, every settle that would have succeeded
\* before the step returns InvalidProof after it.
C19_CurrentRootOnly ==
    /\ [](\A p \in Signers, c \in Commitments \ DOMAIN settled,
            pr \in Proofs \ {<<>>, LongProof}, i \in LeafIndices :
            /\ settle_error(p, c, pr, i) = "Ok"
                  <=> compute_root(c, pr, i) = settlement_state.current_root
            /\ \A b \in DOMAIN batch_roots :
                  /\ batch_roots[b].root # settlement_state.current_root
                  /\ compute_root(c, pr, i) = batch_roots[b].root
                  => settle_error(p, c, pr, i) = "InvalidProof")
    /\ [][settlement_state'.current_root # settlement_state.current_root =>
            \A p \in Signers, c \in Commitments, pr \in Proofs, i \in LeafIndices :
                settle_error(p, c, pr, i) = "Ok"
                    => (settle_error(p, c, pr, i))' = "InvalidProof"]_vars

\* the root of batch 1 has been replaced by a different root in batch 2, and a
\* settle whose proof recomputes to the root of batch 1 is refused with
\* InvalidProof
C19_Witness ==
    /\ settlement_state.batch_id = 2
    /\ batch_roots[1].root # settlement_state.current_root
    /\ batch_roots[2].root = settlement_state.current_root
    /\ \E p \in Signers, c \in Commitments \ DOMAIN settled, pr \in Proofs,
          i \in LeafIndices :
          /\ verify_merkle_proof(c, pr, i, batch_roots[1].root)
          /\ settle_error(p, c, pr, i) = "InvalidProof"

\* ---------------------------------------------------------------------- C20
\* C20: batch_id is 0 after initialize; a successful update_root makes
\* batch_id one more than it was and current_root the root it was called
\* with, also when that root is the current one already; batch_id never
\* decreases; and a step that changes batch_id or current_root is a
\* successful update_root.
C20_BatchIdAndRoot ==
    /\ settlement_state.batch_id = 0
    /\ [](settlement_state.batch_id = Len(batch_roots))
    /\ [][\A e \in Signers, r \in Roots, now \in Times :
            update_root_error(e, r) = "Ok" /\ update_root(e, r, now)
                => /\ settlement_state'.batch_id = settlement_state.batch_id + 1
                   /\ settlement_state'.current_root = r]_vars
    /\ [][settlement_state'.batch_id >= settlement_state.batch_id]_vars
    /\ [][\/ /\ settlement_state'.batch_id = settlement_state.batch_id
             /\ settlement_state'.current_root = settlement_state.current_root
          \/ \E e \in Signers, r \in Roots, now \in Times :
                update_root_error(e, r) = "Ok" /\ update_root(e, r, now)]_vars

\* two roots have been published, the second equal to the first, by different
\* signers, and a commitment was settled in between
C20_Witness ==
    /\ settlement_state.batch_id = 2
    /\ batch_roots[1].root = batch_roots[2].root
    /\ batch_roots[1].executor # batch_roots[2].executor
    /\ \E c \in DOMAIN settled : settled[c].batch_id = 1

\* ---------------------------------------------------------------------- C21
\* C21: in every state of sip-settlement the BatchRoot accounts are those of
\* the batch ids 1..batch_id, one for each, and the account of an id holds
\* that id; a BatchRoot account, once created, keeps its batch id, root and
\* submitter (and timestamp) through every step; and while batch_id is not 0
\* the account of batch_id holds current_root.
C21_BatchHistory ==
    /\ [](/\ DOMAIN batch_roots = 1..settlement_state.batch_id
          /\ \A b \in DOMAIN batch_roots : batch_roots[b].batch_id = b
          /\ settlement_state.batch_id >= 1 =>
                batch_roots[settlement_state.batch_id].root
                    = settlement_state.current_root)
    /\ [][\A b \in DOMAIN batch_roots :
            b \in DOMAIN batch_roots' /\ batch_roots'[b] = batch_roots[b]]_vars

\* two batches with different roots, the first submitted by a signer who has
\* since stopped being owner or executor, and a commitment settled under the
\* first root
C21_Witness ==
    /\ settlement_state.batch_id = 2
    /\ batch_roots[1].root # batch_roots[2].root
    /\ batch_roots[1].executor \notin SettlementAuthorized
    /\ \E c \in DOMAIN settled : settled[c].batch_id = 1

\* ---------------------------------------------------------------------- C22
\* C22 as stated: while the vault is paused every deposit and every withdrawal
\* returns VaultPaused, whoever signs and whatever the token
C22_PausedAlwaysVaultPaused ==
    vault_state.paused =>
        /\ \A amt \in Amounts, ok \in BOOLEAN : deposit_error(amt, ok) = "VaultPaused"
        /\ \A e \in Signers, c \in Commitments, amt \in Amounts :
              /\ withdraw_native_error(e, c, amt) = "VaultPaused"
              /\ withdraw_token_error(e, c, amt) = "VaultPaused"

\* C22: while the vault is paused every deposit returns VaultPaused, and every
\* withdrawal fails: with the account-already-in-use error if the token is
\* consumed, else with Unauthorized if the signer is neither the authority nor
\* the settlement identity, else with VaultPaused; none of these calls changes
\* an account. set_settlement, transfer_authority, accept_authority and
\* unpause do not look at the flag: they are accepted from the same signers
\* and have the same effect whether the vault is paused or not.
C22_PausedVault ==
    /\ [](vault_state.paused =>
            /\ \A amt \in Amounts, ok \in BOOLEAN : deposit_error(amt, ok) = "VaultPaused"
            /\ \A e \in Signers, c \in Commitments, amt \in Amounts :
                  LET expected ==
                        IF c \in DOMAIN used_commitments THEN "AccountAlreadyInUse"
                        ELSE IF e \notin VaultAuthorized THEN "Unauthorized"
                        ELSE "VaultPaused"
                  IN  /\ withdraw_native_error(e, c, amt) = expected
                      /\ withdraw_token_error(e, c, amt) = expected)
    /\ [][vault_state.paused =>
            \/ UNCHANGED vault_accounts
            \/ /\ \A d \in Depositors, amt \in Amounts, now \in Times, ok \in BOOLEAN :
                     /\ ~deposit_native(d, amt, now, ok)
                     /\ \A m \in Mints : ~deposit_token(d, amt, m, now, ok)
               /\ \A e \in Signers, c \in Commitments, amt \in Amounts, now \in Times :
                     /\ \A r \in Recipients : ~withdraw_native(e, c, amt, r, now)
                     /\ \A r \in TokenAccounts : ~withdraw_token(e, c, amt, r, now)]_vars
    /\ [](\A a \in Signers :
            /\ has_one_error(a) = "Ok" <=> a = vault_state.authority
            /\ \A n \in Signers :
                  v_transfer_authority_error(a, n) = "Ok" <=> a = vault_state.authority
            /\ v_accept_authority_error(a) = "Ok" <=> a = vault_state.pending_authority)
    /\ [][\/ vault_state' = vault_state
          \/ /\ \A a \in Signers, st \in Pubkeys :
                   set_settlement(a, st) =>
                       vault_state' = [vault_state EXCEPT !.settlement = st]
             /\ \A a \in Signers, n \in Pubkeys :
                   v_transfer_authority(a, n) =>
                       vault_state' = [vault_state EXCEPT !.pending_authority = n]
             /\ \A n \in Signers :
                   v_accept_authority(n) =>
                       vault_state' = [vault_state EXCEPT
                                          !.authority = n,
                                          !.pending_authority = DefaultPubkey]
             /\ \A a \in Signers :
                   unpause(a) => vault_state' = [vault_state EXCEPT !.paused = FALSE]]_vars

\* the vault is paused and holds funds; the owner was replaced and the
\* settlement identity set while it was paused or before; an authorized signer
\* with a fresh token and an amount the vault holds is refused with VaultPaused,
\* and the owner's admin calls are accepted
C22_Witness ==
    /\ vault_state.paused
    /\ vault_state.sol_balance >= 1
    /\ vault_state.authority # Deployer
    /\ vault_state.settlement # vault_state.authority
    /\ \E c \in Commitments \ DOMAIN used_commitments :
          /\ withdraw_native_error(vault_state.settlement, c, 1) = "VaultPaused"
          /\ withdraw_token_error(vault_state.authority, c, 1) = "VaultPaused"
    /\ deposit_error(1, TRUE) = "VaultPaused"
    /\ has_one_error(vault_state.authority) = "Ok"

\* ---------------------------------------------------------------------- C23
\* C23 as stated, for the calls a paused vault keeps refusing: while sip-vault
\* or obscura_vault is paused, every deposit, withdrawal and claim returns
\* VaultPaused
C23_PausedKeepsReturningVaultPaused ==
    /\ vault_state.paused =>
          /\ \A amt \in Amounts, ok \in BOOLEAN : deposit_error(amt, ok) = "VaultPaused"
          /\ \A e \in Signers, c \in Commitments, amt \in Amounts :
                /\ withdraw_native_error(e, c, amt) = "VaultPaused"
                /\ withdraw_token_error(e, c, amt) = "VaultPaused"
    /\ obscura_state.paused =>
          /\ \A amt \in Amounts, ok \in BOOLEAN : o_deposit_error(amt, ok) = "VaultPaused"
          /\ \A s \in Claimers, amt \in Amounts, n \in Nullifiers :
                /\ claim_error(s, amt, n) = "VaultPaused"
                /\ authority_claim_error(s, amt) = "VaultPaused"
                /\ relayer_claim_error(s, amt, n) = "VaultPaused"

\* C23: in sip-vault and in obscura_vault, pause and unpause are refused to
\* every signer but the current owner; a step that changes the paused flag is
\* a pause or an unpause signed by the owner, and changes nothing else, so a
\* paused vault stays paused through every other instruction; and while a
\* vault is paused no deposit, withdrawal or claim succeeds: deposits and
\* claim return VaultPaused, and a withdrawal, authority_claim or
\* relayer_claim returns VaultPaused unless a check that runs earlier (consumed
\* token, signer) refuses it first.
C23_PausedFlag ==
    /\ [](/\ \A a \in Signers :
                has_one_error(a) = "Ok" <=> a = vault_state.authority
          /\ \A a \in Claimers :
                admin_constraint_error(a) = "Ok" <=> a = obscura_state.authority)
    /\ [][/\ vault_state'.paused # vault_state.paused =>
                /\ vault_state' = [vault_state EXCEPT !.paused = ~vault_state.paused]
                /\ \/ pause(vault_state.authority)
                   \/ unpause(vault_state.authority)
          /\ obscura_state'.paused # obscura_state.paused =>
                /\ obscura_state' = [obscura_state EXCEPT !.paused = ~obscura_state.paused]
                /\ \/ o_pause(obscura_state.authority)
                   \/ o_unpause(obscura_state.authority)]_vars
    /\ [](vault_state.paused =>
            /\ \A amt \in Amounts, ok \in BOOLEAN : deposit_error(amt, ok) = "VaultPaused"
            /\ \A e \in Signers, c \in Commitments, amt \in Amounts :
                  /\ withdraw_native_error(e, c, amt)
                        \in {"AccountAlreadyInUse", "Unauthorized", "VaultPaused"}
                  /\ withdraw_token_error(e, c, amt)
                        \in {"AccountAlreadyInUse", "Unauthorized", "VaultPaused"}
                  /\ e \in VaultAuthorized /\ c \notin DOMAIN used_commitments =>
                        /\ withdraw_native_error(e, c, amt) = "VaultPaused"
                        /\ withdraw_token_error(e, c, amt) = "VaultPaused")
    /\ [](obscura_state.paused =>
            /\ \A amt \in Amounts, ok \in BOOLEAN : o_deposit_error(amt, ok) = "VaultPaused"
            /\ \A s \in Claimers, amt \in Amounts, n \in Nullifiers :
                  /\ claim_error(s, amt, n) = "VaultPaused"
                  /\ authority_claim_error(s, amt) =
                        IF s = obscura_state.authority THEN "VaultPaused" ELSE "Unauthorized"
                  /\ relayer_claim_error(s, amt, n) =
                        IF s = obscura_state.relayer THEN "VaultPaused"
                        ELSE "UnauthorizedRelayer")

\* obscura_vault is paused, holds lamports, has a relayer who is not the owner
\* and has paid claims out before: the relayer can neither unpause nor claim,
\* and a signer who is neither gets the constraint errors
C23_Witness ==
    /\ obscura_state.paused
    /\ obscura_lamports >= 1
    /\ obscura_state.total_claims >= 1
    /\ obscura_state.relayer \in Claimers \ {obscura_state.authority}
    /\ admin_constraint_error(obscura_state.relayer) = "Unauthorized"
    /\ \A n \in Nullifiers :
          relayer_claim_error(obscura_state.relayer, 1, n) = "VaultPaused"
    /\ \E s \in Claimers \ {obscura_state.authority, obscura_state.relayer} :
          /\ authority_claim_error(s, 1) = "Unauthorized"
          /\ relayer_claim_error(s, 1, ZeroBytes) = "UnauthorizedRelayer"
          /\ claim_error(s, 1, ZeroBytes) = "VaultPaused"

\* ---------------------------------------------------------------------- C24
\* C24 as stated, for the tracked balance: every successful deposit, native or
\* token, increases deposit_nonce by 1 and sol_balance by the amount deposited
C24_EveryDepositTracked ==
    [][\/ UNCHANGED <<vault_state, deposit_records>>
       \/ \A d \in Depositors, amt \in Amounts, now \in Times :
             /\ deposit_error(amt, TRUE) = "Ok"
             /\ \/ deposit_native(d, amt, now, TRUE)
                \/ \E m \in Mints : deposit_token(d, amt, m, now, TRUE)
             => /\ vault_state'.deposit_nonce = vault_state.deposit_nonce + 1
                /\ vault_state'.sol_balance = vault_state.sol_balance + amt]_vars

\* C24: a deposit returns VaultPaused when the vault is paused and, when it is
\* not, InvalidAmount when the amount is 0. A successful deposit increases
\* deposit_nonce by exactly 1 and creates exactly one DepositRecord, under the
\* new deposit_nonce, whose nonce is the new deposit_nonce and whose depositor
\* and amount are those of the call; deposit_native increases sol_balance and
\* the lamports held by the amount, deposit_token leaves sol_balance alone and
\* increases the tokens held by the amount. The DepositRecords are those of
\* the nonces 1..deposit_nonce, and none is modified by any step.
C24_Deposit ==
    /\ [](\A amt \in Amounts, ok \in BOOLEAN :
            /\ vault_state.paused => deposit_error(amt, ok) = "VaultPaused"
            /\ ~vault_state.paused /\ amt = 0 => deposit_error(amt, ok) = "InvalidAmount"
            /\ deposit_error(amt, ok) = "Ok" <=> ~vault_state.paused /\ amt > 0 /\ ok)
    /\ [][\/ UNCHANGED <<vault_state, deposit_records>>
          \/ \A d \in Depositors, amt \in Amounts, now \in Times :
                LET nonce == vault_state.deposit_nonce + 1
                    created(mint) ==
                        /\ vault_state'.deposit_nonce = nonce
                        /\ DOMAIN deposit_records' = DOMAIN deposit_records \cup {nonce}
                        /\ nonce \notin DOMAIN deposit_records
                        /\ deposit_records'[nonce].nonce = nonce
                        /\ deposit_records'[nonce].depositor = d
                        /\ deposit_records'[nonce].amount = amt
                        /\ deposit_records'[nonce].token_mint = mint
                IN  /\ deposit_native(d, amt, now, TRUE) =>
                          /\ created(DefaultPubkey)
                          /\ vault_state'.sol_balance = vault_state.sol_balance + amt
                          /\ custody' = [custody EXCEPT !.lamports = @ + amt]
                    /\ \A m \in Mints :
                          deposit_token(d, amt, m, now, TRUE) =>
                              /\ created(m)
                              /\ vault_state'.sol_balance = vault_state.sol_balance
                              /\ custody' = [custody EXCEPT !.tokens = @ + amt]]_vars
    /\ [](DOMAIN deposit_records = 1..vault_state.deposit_nonce)
    /\ [][\A n \in DOMAIN deposit_records :
            n \in DOMAIN deposit_records' /\ deposit_records'[n] = deposit_records[n]]_vars

\* a native and a token deposit have been made, a withdrawal followed, and the
\* vault is paused: sol_balance counts the native deposit only, and a deposit
\* of 0 is refused with VaultPaused
C24_Witness ==
    /\ vault_state.deposit_nonce = 2
    /\ deposit_records[1].token_mint \in Mints
    /\ deposit_records[2].token_mint = DefaultPubkey
    /\ deposit_records[2].nonce = 2
    /\ vault_state.withdrawal_nonce >= 1
    /\ vault_state.paused
    /\ deposit_error(0, TRUE) = "VaultPaused"

\* ---------------------------------------------------------------------- C25
\* C25: the commitment of every DepositRecord is the hash of the record's own
\* depositor, amount, mint, nonce and timestamp, the nonce being the deposit
\* counter under which the record is stored; no two DepositRecords have the
\* same nonce, and so no two have the same commitment, also when depositor,
\* amount, mint and timestamp are the same.
C25_DistinctCommitments ==
    /\ \A n \in DOMAIN deposit_records :
          LET r == deposit_records[n]
          IN  /\ r.nonce = n
              /\ r.commitment = compute_deposit_commitment(
                                    r.depositor, r.amount, r.token_mint, r.nonce,
                                    r.deposited_at)
    /\ \A n, m \in DOMAIN deposit_records :
          n # m => deposit_records[n].commitment # deposit_records[m].commitment

\* two deposits by the same depositor, of the same amount, in the same asset
\* and at the same time
C25_Witness ==
    \E n, m \in DOMAIN deposit_records :
        /\ n # m
        /\ deposit_records[n].depositor = deposit_records[m].depositor
        /\ deposit_records[n].amount = deposit_records[m].amount
        /\ deposit_records[n].token_mint = deposit_records[m].token_mint
        /\ deposit_records[n].deposited_at = deposit_records[m].deposited_at
        /\ deposit_records[n].commitment # deposit_records[m].commitment

\* ---------------------------------------------------------------------- C26
\* C26: a withdrawal succeeds only when its signer is the current settlement
\* identity: every UsedCommitment record a step creates, by withdraw_native or
\* withdraw_token, names the settlement identity of the vault as its executor,
\* and no signer other than the settlement identity is let through.
C26_OnlySettlementReleases ==
    /\ [](\A e \in Signers \ {vault_state.settlement}, c \in Commitments, amt \in Amounts :
            /\ withdraw_native_error(e, c, amt) # "Ok"
            /\ withdraw_token_error(e, c, amt) # "Ok")
    /\ [][\A c \in DOMAIN used_commitments' \ DOMAIN used_commitments :
            used_commitments'[c].executor = vault_state.settlement]_vars

\* ---------------------------------------------------------------------- C27
\* C27: authority_claim gets past the signer check when it is signed by the
\* owner of obscura_vault and when it is signed by its relayer, and returns
\* Unauthorized to every other signer.
C27_AuthorityOrRelayerClaim ==
    \A s \in Claimers, amt \in Amounts :
        authority_claim_error(s, amt) = "Unauthorized"
            <=> s \notin {obscura_state.authority, obscura_state.relayer}

\* ------------------------------------------------ executor set claim helpers
\* the executor set: the keys in the first executor_count slots
ExecutorSet == {CurrentExecutors[i] : i \in DOMAIN CurrentExecutors}

\* ---------------------------------------------------------------------- C28
\* C28: add_executor signed by the owner returns ExecutorAlreadyExists when
\* the key is in the executor set, full or not; otherwise MaxExecutorsReached
\* when the set holds MAX_EXECUTORS (10) keys; otherwise it succeeds, and then
\* the new set is the old one plus the key, the count is one more and the keys
\* that were there keep their slots. A refused call changes nothing.
C28_AddExecutor ==
    /\ [](\A e \in ExecutorKeys :
            add_executor_error(settlement_state.authority, e) =
                IF e \in ExecutorSet THEN "ExecutorAlreadyExists"
                ELSE IF settlement_state.executor_count = MAX_EXECUTORS
                     THEN "MaxExecutorsReached"
                ELSE "Ok")
    /\ [][\/ settlement_state' = settlement_state
          \/ \A e \in ExecutorKeys :
                add_executor(settlement_state.authority, e) =>
                    /\ e \notin ExecutorSet
                    /\ settlement_state.executor_count < MAX_EXECUTORS
                    /\ ExecutorSet' = ExecutorSet \cup {e}
                    /\ settlement_state'.executor_count
                          = settlement_state.executor_count + 1
                    /\ \A i \in DOMAIN CurrentExecutors :
                          CurrentExecutors'[i] = CurrentExecutors[i]
                    /\ settlement_state' =
                          [settlement_state EXCEPT
                              !.executors = settlement_state'.executors,
                              !.executor_count = settlement_state'.executor_count]]_vars

\* the set is full, a root has been published and an authority transfer is
\* pending: the owner is refused the key of the last slot with
\* ExecutorAlreadyExists and the one key that is not in the set with
\* MaxExecutorsReached
C28_Witness ==
    /\ settlement_state.executor_count = MAX_EXECUTORS
    /\ settlement_state.batch_id >= 1
    /\ settlement_state.pending_authority # DefaultPubkey
    /\ add_executor_error(settlement_state.authority,
                          settlement_state.executors[MAX_EXECUTORS])
          = "ExecutorAlreadyExists"
    /\ ExecutorKeys \ ExecutorSet = {NextExecutor}
    /\ add_executor_error(settlement_state.authority, NextExecutor)
          = "MaxExecutorsReached"

\* ---------------------------------------------------------------------- C29
\* C29: remove_executor signed by the owner returns ExecutorNotFound when the
\* key is not in the executor set, as for every key while the set is empty,
\* and then changes nothing; otherwise it succeeds, the new set is the old one
\* without the key, every other key kept, the count is one less, and in the
\* state it leaves update_root is refused to the removed key with
\* Unauthorized unless the key is the owner's.
C29_RemoveExecutor ==
    /\ [](\A e \in ExecutorKeys :
            /\ remove_executor_error(settlement_state.authority, e) =
                  IF e \in ExecutorSet THEN "Ok" ELSE "ExecutorNotFound"
            /\ settlement_state.executor_count = 0 =>
                  remove_executor_error(settlement_state.authority, e)
                      = "ExecutorNotFound")
    /\ [][\/ settlement_state' = settlement_state
          \/ \A e \in ExecutorKeys :
                remove_executor(settlement_state.authority, e) =>
                    /\ e \in ExecutorSet
                    /\ ExecutorSet' = ExecutorSet \ {e}
                    /\ settlement_state'.executor_count
                          = settlement_state.executor_count - 1
                    /\ settlement_state'.authority = settlement_state.authority
                    /\ e # settlement_state.authority =>
                          \A r \in Roots : (update_root_error(e, r))' = "Unauthorized"]_vars

\* the set holds several keys, a signer who is not the owner in the first
\* slot; the owner can remove that signer, who is let through by update_root
\* until then, and is refused a key that is not in the set
C29_Witness ==
    /\ settlement_state.executor_count >= 3
    /\ settlement_state.executors[1] \in Signers \ {settlement_state.authority}
    /\ update_root_error(settlement_state.executors[1], ExecutorRoot) = "Ok"
    /\ remove_executor_error(settlement_state.authority, settlement_state.executors[1])
          = "Ok"
    /\ remove_executor_error(settlement_state.authority, NextExecutor)
          = "ExecutorNotFound"

\* ---------------------------------------------------------------------- C30
\* C30 as stated, for the default target: transfer_authority with the default
\* key as new authority returns InvalidPendingAuthority, in sip-settlement and
\* in sip-vault, whoever signs
C30_DefaultTargetAlwaysInvalid ==
    \A a \in Signers :
        /\ s_transfer_authority_error(a, DefaultPubkey) = "InvalidPendingAuthority"
        /\ v_transfer_authority_error(a, DefaultPubkey) = "InvalidPendingAuthority"

\* C30: in sip-settlement and in sip-vault, transfer_authority with the
\* default key as new authority fails for every signer, with
\* InvalidPendingAuthority when the owner signs and in the has_one constraint
\* when another signer does, and changes nothing; with any other new
\* authority and signed by the owner it succeeds and makes that key the
\* pending authority, whatever was pending, leaving the owner and every other
\* field as they were.
C30_TransferAuthority ==
    /\ [](\A a \in Signers, n \in Pubkeys :
            /\ s_transfer_authority_error(a, n) =
                  IF a # settlement_state.authority THEN "ConstraintHasOne"
                  ELSE IF n = DefaultPubkey THEN "InvalidPendingAuthority"
                  ELSE "Ok"
            /\ v_transfer_authority_error(a, n) =
                  IF a # vault_state.authority THEN "ConstraintHasOne"
                  ELSE IF n = DefaultPubkey THEN "InvalidPendingAuthority"
                  ELSE "Ok")
    /\ [][/\ \/ settlement_state' = settlement_state
             \/ \A a \in Signers, n \in Pubkeys :
                   s_transfer_authority(a, n) =>
                       /\ a = settlement_state.authority
                       /\ n # DefaultPubkey
                       /\ settlement_state' =
                             [settlement_state EXCEPT !.pending_authority = n]
          /\ \/ vault_state' = vault_state
             \/ \A a \in Signers, n \in Pubkeys :
                   v_transfer_authority(a, n) =>
                       /\ a = vault_state.authority
                       /\ n # DefaultPubkey
                       /\ vault_state' = [vault_state EXCEPT !.pending_authority = n]]_vars

\* the vault has a new owner, who has named a pending authority: the owner is
\* refused the default key with InvalidPendingAuthority and can replace the
\* pending authority by another key, and the pending authority, who is not the
\* owner, is refused in the constraint
C30_Witness ==
    /\ vault_state.authority # Deployer
    /\ vault_state.pending_authority \in Signers \ {vault_state.authority}
    /\ v_transfer_authority_error(vault_state.authority, DefaultPubkey)
          = "InvalidPendingAuthority"
    /\ v_transfer_authority_error(vault_state.authority, vault_state.authority) = "Ok"
    /\ v_transfer_authority_error(vault_state.pending_authority, DefaultPubkey)
          = "ConstraintHasOne"

\* ---------------------------------------------------------------------- C31
\* a step of sip-settlement that is one of the four operations of the owner,
\* signed by the current owner
OwnerSignedStep ==
    \/ \E e \in Signers : add_executor(settlement_state.authority, e)
    \/ \E e \in Signers : remove_executor(settlement_state.authority, e)
    \/ \E n \in Pubkeys : s_transfer_authority(settlement_state.authority, n)
    \/ cancel_authority_transfer(settlement_state.authority)

\* C31 as stated: every step of sip-settlement that changes the owner or the
\* executor set is an operation signed by the current owner
C31_OnlyOwnerSignedSteps ==
    [][(\/ settlement_state'.authority # settlement_state.authority
        \/ ExecutorSet' # ExecutorSet) => OwnerSignedStep]_vars

\* C31: add_executor, remove_executor, transfer_authority and
\* cancel_authority_transfer signed by anyone but the current owner, an
\* executor included, fail in the has_one constraint and change nothing; the
\* executor set changes only in an add_executor or remove_executor signed by
\* the current owner; the owner changes only in an accept_authority signed by
\* the pending authority, which becomes the owner.
C31_OwnerAndExecutors ==
    /\ [](\A a \in Signers \ {settlement_state.authority} :
            /\ \A e \in Signers :
                  /\ add_executor_error(a, e) = "ConstraintHasOne"
                  /\ remove_executor_error(a, e) = "ConstraintHasOne"
            /\ \A n \in Pubkeys : s_transfer_authority_error(a, n) = "ConstraintHasOne"
            /\ cancel_authority_transfer_error(a) = "ConstraintHasOne")
    /\ [][\/ settlement_state' = settlement_state
          \/ /\ \A a \in Signers \ {settlement_state.authority} :
                   /\ \A e \in Signers : ~add_executor(a, e) /\ ~remove_executor(a, e)
                   /\ \A n \in Pubkeys : ~s_transfer_authority(a, n)
                   /\ ~cancel_authority_transfer(a)
             /\ ExecutorSet' # ExecutorSet =>
                   \E e \in Signers :
                      \/ add_executor(settlement_state.authority, e)
                      \/ remove_executor(settlement_state.authority, e)
             /\ settlement_state'.authority # settlement_state.authority =>
                   /\ s_accept_authority(settlement_state.pending_authority)
                   /\ settlement_state'.authority = settlement_state.pending_authority]_vars

\* an executor who is not the owner, while an authority transfer is pending:
\* it can publish a root, and is refused the four operations of the owner
C31_Witness ==
    \E a \in Signers \ {settlement_state.authority} :
        /\ a \in ExecutorSet
        /\ settlement_state.pending_authority # DefaultPubkey
        /\ \E r \in Roots : update_root_error(a, r) = "Ok"
        /\ \E e \in Signers \ ExecutorSet : add_executor_error(a, e) = "ConstraintHasOne"
        /\ remove_executor_error(a, a) = "ConstraintHasOne"
        /\ s_transfer_authority_error(a, a) = "ConstraintHasOne"
        /\ cancel_authority_transfer_error(a) = "ConstraintHasOne"

\* ---------------------------------------------------------------------- C32
\* C32: in every reachable state of sip-settlement and of sip-vault, both
\* initialized by a signer that is not the default key, the owner is not the
\* default key
C32_OwnerNeverDefault ==
    /\ settlement_state.authority # DefaultPubkey
    /\ vault_state.authority # DefaultPubkey

\* sip-settlement has been handed over to a new owner, who has then named a
\* pending authority and cancelled the transfer: the owner is a signer and no
\* transfer is pending
C32_Witness ==
    /\ settlement_state.authority \in Signers \ {Deployer}
    /\ cancelled # DefaultPubkey
    /\ settlement_state.pending_authority = DefaultPubkey
    /\ s_accept_authority_error(cancelled) = "NoPendingTransfer"

\* ---------------------------------------------------------------------- C33
\* C33: in every state of sip-settlement current_root is all-zero exactly when
\* batch_id is 0; the root leaves zero only in a successful update_root, and a
\* root that is not zero is never followed by a zero root.
C33_RootUnsetIffNoBatch ==
    /\ [](settlement_state.current_root = ZeroBytes <=> settlement_state.batch_id = 0)
    /\ [][/\ settlement_state.current_root # ZeroBytes =>
                settlement_state'.current_root # ZeroBytes
          /\ (/\ settlement_state.current_root = ZeroBytes
              /\ settlement_state'.current_root # ZeroBytes) =>
                \E e \in Signers, r \in Roots \ {ZeroBytes}, now \in Times :
                    /\ update_root_error(e, r) = "Ok"
                    /\ update_root(e, r, now)
                    /\ settlement_state'.batch_id = 1]_vars

\* the root has been rotated twice, by the owner and by an executor who is no
\* longer one, both batches hold a root that is not zero, and the zero root is
\* refused to every authorized submitter
C33_Witness ==
    /\ settlement_state.batch_id = 2
    /\ settlement_state.current_root # ZeroBytes
    /\ \A b \in DOMAIN batch_roots : batch_roots[b].root # ZeroBytes
    /\ \E b \in DOMAIN batch_roots : batch_roots[b].executor \notin SettlementAuthorized
    /\ \A e \in SettlementAuthorized : update_root_error(e, ZeroBytes) = "InvalidRoot"

\* ---------------------------------------------------------------------- C34
\* C34 as stated, for the relayer a set_relayer has stored: initialize stores
\* the deployer, who stays the owner, so that a relayer other than the deployer
\* was stored by a successful set_relayer; no later step changes it
C34_RelayerSetOnce ==
    [][obscura_state.relayer # Deployer =>
          obscura_state'.relayer = obscura_state.relayer]_vars

\* C34: set_relayer signed by anyone but the owner returns Unauthorized and
\* changes nothing; relayer_claim signed by anyone but the stored relayer
\* returns UnauthorizedRelayer; the stored relayer changes only in a
\* set_relayer signed by the owner, which stores the key it is called with,
\* whether or not a set_relayer has succeeded before.
C34_Relayer ==
    /\ [](/\ \A a \in Claimers \ {obscura_state.authority} :
                admin_constraint_error(a) = "Unauthorized"
          /\ \A r \in Claimers \ {obscura_state.relayer}, amt \in Amounts,
                n \in Nullifiers :
                relayer_claim_error(r, amt, n) = "UnauthorizedRelayer")
    /\ [][\/ obscura_state' = obscura_state
          \/ /\ \A a \in Claimers \ {obscura_state.authority}, n \in Pubkeys :
                   ~set_relayer(a, n)
             /\ obscura_state'.relayer # obscura_state.relayer =>
                   \E n \in Pubkeys :
                      /\ set_relayer(obscura_state.authority, n)
                      /\ obscura_state'.relayer = n]_vars

\* the owner has stored a relayer other than itself, and that relayer has
\* claimed: the owner and the third signer are refused relayer_claim, the
\* relayer and the third signer are refused set_relayer, and the owner can
\* store another relayer
C34_Witness ==
    /\ obscura_state.relayer \in Claimers \ {obscura_state.authority}
    /\ claim_events # {}
    /\ obscura_lamports >= 1
    /\ ~obscura_state.paused
    /\ \A r \in Claimers \ {obscura_state.relayer}, n \in Nullifiers :
          relayer_claim_error(r, 1, n) = "UnauthorizedRelayer"
    /\ \E n \in Nullifiers : relayer_claim_error(obscura_state.relayer, 1, n) = "Ok"
    /\ \A a \in Claimers \ {obscura_state.authority} :
          admin_constraint_error(a) = "Unauthorized"
    /\ admin_constraint_error(obscura_state.authority) = "Ok"

\* ---------------------------------------------------------------------- C35
\* C35: initialize makes the deployer the settlement identity of sip-vault;
\* the settlement identity changes only in a set_settlement signed by the
\* owner, so accept_authority leaves it as it is; and while the deployer is
\* the settlement identity, whoever the owner is by then, withdraw_native and
\* withdraw_token do not refuse the deployer as Unauthorized.
C35_PreviousOwnerKeepsWithdrawal ==
    /\ vault_state.settlement = Deployer
    /\ [](vault_state.settlement = Deployer =>
            \A c \in Commitments, amt \in Amounts :
                /\ withdraw_native_error(Deployer, c, amt) # "Unauthorized"
                /\ withdraw_token_error(Deployer, c, amt) # "Unauthorized")
    /\ [][\/ vault_state' = vault_state
          \/ /\ \A n \in Signers :
                   v_accept_authority(n) =>
                       vault_state'.settlement = vault_state.settlement
             /\ vault_state'.settlement # vault_state.settlement =>
                   \E s \in Pubkeys : set_settlement(vault_state.authority, s)]_vars

\* the vault has been handed over and the new owner has not changed the
\* settlement identity: the deployer is refused the owner's instructions, and
\* can withdraw lamports and tokens
C35_Witness ==
    /\ vault_state.authority \in Signers \ {Deployer}
    /\ vault_state.pending_authority = DefaultPubkey
    /\ vault_state.settlement = Deployer
    /\ has_one_error(Deployer) = "ConstraintHasOne"
    /\ \E c \in Commitments : withdraw_native_error(Deployer, c, 1) = "Ok"
    /\ \E c \in Commitments : withdraw_token_error(Deployer, c, 1) = "Ok"

\* ---------------------------------------------------------------------- C36
\* C36: in sip-vault a pending authority that is not the default key stays
\* one until an accept_authority succeeds: the step that clears it is a
\* successful accept_authority, which makes it the owner, and a step that
\* changes it to another key is a transfer_authority of the owner to a key
\* that is not the default one; and while a transfer is pending,
\* accept_authority signed by the pending authority succeeds.
C36_PendingNotWithdrawn ==
    /\ [](vault_state.pending_authority # DefaultPubkey =>
            v_accept_authority_error(vault_state.pending_authority) = "Ok")
    /\ [][\/ vault_state'.pending_authority = vault_state.pending_authority
          \/ vault_state.pending_authority = DefaultPubkey
          \/ IF vault_state'.pending_authority = DefaultPubkey
             THEN /\ v_accept_authority(vault_state.pending_authority)
                  /\ vault_state'.authority = vault_state.pending_authority
             ELSE \E n \in Pubkeys \ {DefaultPubkey} :
                     /\ v_transfer_authority(vault_state.authority, n)
                     /\ vault_state'.pending_authority = n]_vars

\* the vault is paused, holds a deposit, and a transfer to a signer other than
\* the owner is pending: only that signer can accept, and the owner cannot name
\* the default key in its place
C36_Witness ==
    /\ vault_state.paused
    /\ vault_state.deposit_nonce >= 1
    /\ vault_state.pending_authority \in Signers \ {vault_state.authority}
    /\ v_accept_authority_error(vault_state.pending_authority) = "Ok"
    /\ v_accept_authority_error(vault_state.authority) = "Unauthorized"
    /\ v_transfer_authority_error(vault_state.authority, DefaultPubkey)
          = "InvalidPendingAuthority"

\* ---------------------------------------------------------------------- C37
\* C37 as stated, for a positive amount and with the stored relayer signing
\* relayer_claim: in every state in which no claim or relayer_claim has
\* succeeded, claim and relayer_claim with the all-zero nullifier return
\* NullifierAlreadyUsed
C37_ZeroNullifierAlwaysUsed ==
    claim_events = {} =>
        \A amt \in Amounts \ {0} :
            /\ \A s \in Claimers :
                  claim_error(s, amt, ZeroBytes) = "NullifierAlreadyUsed"
            /\ relayer_claim_error(obscura_state.relayer, amt, ZeroBytes)
                  = "NullifierAlreadyUsed"

\* C37: while no claim or relayer_claim has succeeded, the last nullifier is
\* the all-zero one that `init` left, and claim and relayer_claim with the
\* all-zero nullifier fail: with NullifierAlreadyUsed when the call passes the
\* checks that come first, and otherwise with the error of the first of these
\* that fails (UnauthorizedRelayer for relayer_claim by another signer,
\* VaultPaused, ZeroAmount). No such call consumes the all-zero nullifier.
C37_ZeroNullifierRejected ==
    /\ [](claim_events = {} =>
            /\ obscura_state.last_nullifier = ZeroBytes
            /\ \A s \in Claimers, amt \in Amounts :
                  /\ claim_error(s, amt, ZeroBytes) =
                        IF obscura_state.paused THEN "VaultPaused"
                        ELSE IF amt = 0 THEN "ZeroAmount"
                        ELSE "NullifierAlreadyUsed"
                  /\ relayer_claim_error(s, amt, ZeroBytes) =
                        IF s # obscura_state.relayer THEN "UnauthorizedRelayer"
                        ELSE IF obscura_state.paused THEN "VaultPaused"
                        ELSE IF amt = 0 THEN "ZeroAmount"
                        ELSE "NullifierAlreadyUsed")
    /\ [][claim_events = {} => ZeroBytes \notin claim_events']_vars

\* the vault holds lamports after a deposit and a claim of the owner, no
\* claim with a nullifier has succeeded and the vault is not paused: the
\* all-zero nullifier is refused as used, to every claimer and to the relayer,
\* and another nullifier is accepted
C37_Witness ==
    /\ claim_events = {}
    /\ obscura_state.total_claims >= 1
    /\ obscura_lamports >= 1
    /\ ~obscura_state.paused
    /\ \A s \in Claimers : claim_error(s, 1, ZeroBytes) = "NullifierAlreadyUsed"
    /\ relayer_claim_error(obscura_state.relayer, 1, ZeroBytes) = "NullifierAlreadyUsed"
    /\ \E n \in Nullifiers : claim_error(3, 1, n) = "Ok"

\* ---------------------------------------------------------------------- C38
\* C38 as stated, for the condition of success: while the vault is not paused,
\* authority_claim signed by the owner succeeds for every positive amount
C38_SucceedsWhileUnpaused ==
    ~obscura_state.paused =>
        \A amt \in Amounts \ {0} :
            authority_claim_error(obscura_state.authority, amt) = "Ok"

\* C38: authority_claim signed by the owner succeeds exactly when the vault is
\* not paused, the amount is positive and the vault PDA holds the amount,
\* whatever the last nullifier and the last commitment are; a successful call
\* moves the amount out of the vault PDA, makes total_claims one more and
\* last_commitment the commitment it is called with, and leaves last_nullifier,
\* every other field and the claim events as they were.
C38_AuthorityClaim ==
    /\ [](\A amt \in Amounts :
            authority_claim_error(obscura_state.authority, amt) =
                IF obscura_state.paused THEN "VaultPaused"
                ELSE IF amt = 0 THEN "ZeroAmount"
                ELSE IF obscura_lamports < amt THEN "TransferFailed"
                ELSE "Ok")
    /\ [][\/ UNCHANGED <<obscura_state, obscura_lamports, claim_events>>
          \/ \A a \in Claimers, amt \in Amounts, c \in Commitments :
                authority_claim(a, amt, c) =>
                    /\ a = obscura_state.authority
                    /\ obscura_state' =
                          [obscura_state EXCEPT
                              !.total_claims = obscura_state.total_claims + 1,
                              !.last_commitment = c]
                    /\ obscura_state'.last_nullifier = obscura_state.last_nullifier
                    /\ obscura_lamports' = obscura_lamports - amt
                    /\ claim_events' = claim_events]_vars

\* the owner has claimed twice, the second time with the commitment the vault
\* holds as the last one, no nullifier has been recorded, and the owner can
\* claim with that commitment once more
C38_Witness ==
    /\ obscura_state.total_claims = 2
    /\ claim_events = {}
    /\ obscura_state.last_nullifier = ZeroBytes
    /\ obscura_state.last_commitment \in Commitments
    /\ authority_claim_error(obscura_state.authority, 1) = "Ok"
    /\ \A s \in Claimers \ {obscura_state.authority} :
          authority_claim_error(s, 1) = "Unauthorized"

\* ---------------------------------------------------------------------- C39
\* C39: in each of the three programs, whose state account exists from the
\* first initialize on, initialize fails for every signer and is a step that
\* changes no account of the program; the owner of sip-settlement and of
\* sip-vault changes only when the pending authority accepts, and the owner of
\* obscura_vault never changes.
C39_InitializeOnce ==
    /\ [](\A a \in Claimers :
            /\ s_initialize_error(a) = "AccountAlreadyInUse"
            /\ v_initialize_error(a) = "AccountAlreadyInUse"
            /\ o_initialize_error(a) = "AccountAlreadyInUse")
    /\ [][/\ \A a \in Claimers :
                (s_initialize(a) \/ v_initialize(a) \/ o_initialize(a)) =>
                    UNCHANGED <<settlement_accounts, vault_accounts, obscura_vars>>
          /\ settlement_state'.authority # settlement_state.authority =>
                s_accept_authority(settlement_state.pending_authority)
          /\ vault_state'.authority # vault_state.authority =>
                v_accept_authority(vault_state.pending_authority)
          /\ obscura_state'.authority = obscura_state.authority]_vars

\* sip-settlement long after its initialize: a new owner, an executor, a
\* published root, a settled commitment; initialize is refused to the
\* deployer and to the new owner
C39_Witness ==
    /\ settlement_state.authority \in Signers \ {Deployer}
    /\ settlement_state.executor_count >= 1
    /\ settlement_state.batch_id >= 1
    /\ DOMAIN settled # {}
    /\ s_initialize_error(Deployer) = "AccountAlreadyInUse"
    /\ s_initialize_error(settlement_state.authority) = "AccountAlreadyInUse"

\* ---------------------------------------------------------------------- C40
\* C40: for every leaf, sibling path of n <= MaxPath nodes, root and indices
\* i, j with i mod 2^n = j mod 2^n, verify_merkle_proof returns the same for i
\* and for j; settle of the leaf with the path therefore returns the same
\* under i and under j, so that it succeeds under each of them when it
\* succeeds under one; and once the leaf is settled, settle returns
\* AccountAlreadyInUse under every index and the UsedCommitment records stay
\* as they are.
C40_LowIndexBitsOnly ==
    /\ [](merkle_result # <<>> =>
            \A j \in MerkleIndices :
                j % Pow2(Len(merkle_call.proof))
                      = merkle_call.index % Pow2(Len(merkle_call.proof)) =>
                    verify_merkle_proof(merkle_call.leaf, merkle_call.proof, j,
                                        merkle_call.root) = merkle_result[1])
    /\ [](\A i \in MerkleIndices, j \in MerkleIndices :
            i % Pow2(Len(merkle_call.proof)) = j % Pow2(Len(merkle_call.proof)) =>
                settle_error(Deployer, merkle_call.leaf, merkle_call.proof, i)
                    = settle_error(Deployer, merkle_call.leaf, merkle_call.proof, j))
    /\ [](merkle_call.leaf \in DOMAIN settled =>
            \A j \in MerkleIndices :
                settle_error(Deployer, merkle_call.leaf, merkle_call.proof, j)
                    = "AccountAlreadyInUse")
    /\ [][merkle_call.leaf \in DOMAIN settled => settled' = settled]_vars

\* a call with a path of MaxPath siblings and index 0 returned true and its
\* root is the current one: settle of the leaf is accepted under index 0 and
\* under index 2^MaxPath, which is beyond the leaves of the tree, and refused
\* under index 1
C40_Witness ==
    /\ merkle_result = <<TRUE>>
    /\ Len(merkle_call.proof) = MaxPath
    /\ merkle_call.index = 0
    /\ settlement_state.current_root = merkle_call.root
    /\ settle_error(Deployer, merkle_call.leaf, merkle_call.proof, 0) = "Ok"
    /\ settle_error(Deployer, merkle_call.leaf, merkle_call.proof, Pow2(MaxPath)) = "Ok"
    /\ settle_error(Deployer, merkle_call.leaf, merkle_call.proof, 1) = "InvalidProof"

====
